---- MODULE Spec2Model ----
(***************************************************************************)
(* Faceoff Elo system: the rating replay (calculate_elo.py) and the K      *)
(* sweep with its chronological 80/20 split and online log-loss evaluation *)
(* (elo_optimization/optimize_k.py), the group matchup probability        *)
(* (live_runs/matchup_elo.py), the expected score as a double, the reset   *)
(* of the store (clear_elos.py), two adjacent events replayed in both      *)
(* orders, and the polling loop of live_runs/live_matchup_monitor.py.      *)
(*                                                                         *)
(* Arithmetic.  The programs compute in IEEE doubles.  Here every rating   *)
(* is an integer number of hundredths of an Elo point, every probability   *)
(* an integer number of percent, and every log-loss an integer number of   *)
(* thousandths of a nat.  The logistic curve and the logarithm are         *)
(* tabulated from the source formulas, rounded to nearest.                 *)
(***************************************************************************)
EXTENDS Integers, Sequences, FiniteSets, TLC

\* ---------------------------------------------------------------- bounds
\* Rows (faceoffs) of a run over raw data (any row), one candidate.
MaxRows == 2
\* Rows of a run over clean data (well-formed rows only), one candidate:
\* from 6 rows on the split leaves two validation rows.
MaxDeepRows == 6
\* Rows over all game files when several K candidates are swept.
MaxSweepRows == 2
\* Number of game files.
MaxGames == 2
\* Number of K candidates in a sweep.
MaxCandidates == 2
\* Participants on one side of a group matchup.
MaxSide == 2
\* Polls of the live monitor.
MaxPolls == 4

\* ------------------------------------------------------ program constants
K_FACTOR == 32
STARTING_ELO == 1500
\* The experience threshold of the log-loss filter ("> 50").
MinTaken == 50
\* Fixed-point resolution: ratings in 1/Scale Elo points, probabilities in
\* 1/Scale.
Scale == 100
\* Log-loss resolution: 1/LossScale nat.
LossScale == 1000
\* The train share of the split, int(total * 0.8), as the fraction 4/5.
SplitNum == 4
SplitDen == 5

\* ---------------------------------------------------------- pure functions
\* 1 / (1 + 10 ** (-d / 400)) in percent, for d = -960, -956, ..., 960 Elo
\* points (entry b + 241 is the value at d = 4 * b).
ExpectedTable ==
  <<
       0, 0, 0, 0, 0, 0, 0, 0, 0, 0, 0, 1, 1, 1, 1,
       1, 1, 1, 1, 1, 1, 1, 1, 1, 1, 1, 1, 1, 1, 1,
       1, 1, 1, 1, 1, 1, 1, 1, 1, 1, 1, 1, 1, 1, 1,
       1, 1, 1, 1, 1, 1, 1, 1, 1, 1, 1, 1, 1, 1, 2,
       2, 2, 2, 2, 2, 2, 2, 2, 2, 2, 2, 2, 2, 2, 2,
       2, 2, 2, 2, 2, 2, 3, 3, 3, 3, 3, 3, 3, 3, 3,
       3, 3, 3, 3, 3, 3, 4, 4, 4, 4, 4, 4, 4, 4, 4,
       4, 4, 4, 5, 5, 5, 5, 5, 5, 5, 5, 5, 6, 6, 6,
       6, 6, 6, 6, 6, 7, 7, 7, 7, 7, 7, 8, 8, 8, 8,
       8, 8, 9, 9, 9, 9, 9, 9, 10, 10, 10, 10, 11, 11, 11,
       11, 11, 12, 12, 12, 12, 13, 13, 13, 13, 14, 14, 14, 15, 15,
       15, 15, 16, 16, 16, 17, 17, 17, 18, 18, 18, 19, 19, 19, 20,
       20, 20, 21, 21, 22, 22, 22, 23, 23, 24, 24, 24, 25, 25, 26,
       26, 27, 27, 28, 28, 28, 29, 29, 30, 30, 31, 31, 32, 32, 33,
       33, 34, 34, 35, 35, 36, 37, 37, 38, 38, 39, 39, 40, 40, 41,
       41, 42, 43, 43, 44, 44, 45, 45, 46, 47, 47, 48, 48, 49, 49,
       50, 51, 51, 52, 52, 53, 53, 54, 55, 55, 56, 56, 57, 57, 58,
       59, 59, 60, 60, 61, 61, 62, 62, 63, 63, 64, 65, 65, 66, 66,
       67, 67, 68, 68, 69, 69, 70, 70, 71, 71, 72, 72, 72, 73, 73,
       74, 74, 75, 75, 76, 76, 76, 77, 77, 78, 78, 78, 79, 79, 80,
       80, 80, 81, 81, 81, 82, 82, 82, 83, 83, 83, 84, 84, 84, 85,
       85, 85, 85, 86, 86, 86, 87, 87, 87, 87, 88, 88, 88, 88, 89,
       89, 89, 89, 89, 90, 90, 90, 90, 91, 91, 91, 91, 91, 91, 92,
       92, 92, 92, 92, 92, 93, 93, 93, 93, 93, 93, 94, 94, 94, 94,
       94, 94, 94, 94, 95, 95, 95, 95, 95, 95, 95, 95, 95, 96, 96,
       96, 96, 96, 96, 96, 96, 96, 96, 96, 96, 97, 97, 97, 97, 97,
       97, 97, 97, 97, 97, 97, 97, 97, 97, 97, 98, 98, 98, 98, 98,
       98, 98, 98, 98, 98, 98, 98, 98, 98, 98, 98, 98, 98, 98, 98,
       98, 98, 99, 99, 99, 99, 99, 99, 99, 99, 99, 99, 99, 99, 99,
       99, 99, 99, 99, 99, 99, 99, 99, 99, 99, 99, 99, 99, 99, 99,
       99, 99, 99, 99, 99, 99, 99, 99, 99, 99, 99, 99, 99, 99, 99,
       99, 99, 99, 99, 99, 100, 100, 100, 100, 100, 100, 100, 100, 100, 100,
       100
  >>

\* -ln(clip(p)) in thousandths of a nat for p = 0, 1, ..., 100 percent
\* (entry p + 1); clip(p) = max(1e-15, min(1 - 1e-15, p)), so p = 0 gives
\* -ln(1e-15) and p = 100 gives -ln(1 - 1e-15), which rounds to 0.
NegLnTable ==
  <<
       34539, 4605, 3912, 3507, 3219, 2996, 2813, 2659, 2526, 2408, 2303, 2207,
       2120, 2040, 1966, 1897, 1833, 1772, 1715, 1661, 1609, 1561, 1514, 1470,
       1427, 1386, 1347, 1309, 1273, 1238, 1204, 1171, 1139, 1109, 1079, 1050,
       1022, 994, 968, 942, 916, 892, 868, 844, 821, 799, 777, 755,
       734, 713, 693, 673, 654, 635, 616, 598, 580, 562, 545, 528,
       511, 494, 478, 462, 446, 431, 416, 400, 386, 371, 357, 342,
       329, 315, 301, 288, 274, 261, 248, 236, 223, 211, 198, 186,
       174, 163, 151, 139, 128, 117, 105, 94, 83, 73, 62, 51,
       41, 30, 20, 10, 0 >>

\* A rating difference in hundredths of a point, rounded to the nearest
\* multiple of 4 points (ties away from zero), as a table index offset.
Bucket(d) ==
  IF d >= 0 THEN (d + 2 * Scale) \div (4 * Scale)
            ELSE -((2 * Scale - d) \div (4 * Scale))

calculate_expected_score(rating_a, rating_b) ==
  LET b == Bucket(rating_a - rating_b)
  IN  IF b > 240 THEN Scale
      ELSE IF b < -240 THEN 0
      ELSE ExpectedTable[b + 241]

\* actual is 1 (won) or 0 (lost); expected is in percent, so the step
\* k * (actual - expected) is a whole number of hundredths of a point.
UpdateEloSignFlipped(old_rating, expected, actual, k) ==
  old_rating + k * (expected - actual * Scale)
update_elo(old_rating, expected, actual, k) ==
  old_rating + k * (actual * Scale - expected)

\* The loss with the sign of ln p.
LogLossUnnegated(predicted_prob, actual) ==
  IF actual = 1 THEN -NegLnTable[predicted_prob + 1]
                ELSE -NegLnTable[(Scale - predicted_prob) + 1]

log_loss_single(predicted_prob, actual) ==
  IF actual = 1 THEN NegLnTable[predicted_prob + 1]
                ELSE NegLnTable[(Scale - predicted_prob) + 1]

\* dict.get(key, default)
Get(d, key, default) == IF key \in DOMAIN d THEN d[key] ELSE default

\* Python truthiness of a player id read from a row: None (a missing key,
\* a JSON null) and 0 are falsy; None is written 0 here.
Truthy(id) == id # 0

RECURSIVE SumSeq(_)
SumSeq(s) == IF s = <<>> THEN 0 ELSE Head(s) + SumSeq(Tail(s))

\* ----------------------------------------------------------- the inputs
\* A player file as init_player_elos.create_player_elo_files writes it.
FreshRecord(id) ==
  [player_id |-> id, elo |-> STARTING_ELO * Scale, faceoffs_taken |-> 0,
   offensive_faceoffs |-> 0, defensive_faceoffs |-> 0, neutral_faceoffs |-> 0]

\* A player file after earlier replays and the enrichment scripts
\* (player_info, add_time_on_ice_to_player_elos).
PlayedRecord(id, elo, o, d, n, toi) ==
  [player_id |-> id, player_name |-> "Name", player_team |-> "TEAM",
   elo |-> elo, faceoffs_taken |-> o + d + n, offensive_faceoffs |-> o,
   defensive_faceoffs |-> d, neutral_faceoffs |-> n,
   time_on_ice_seconds |-> toi]

\* The player_elos directories a run may start from: file name -> content.
DirFresh == (1 :> FreshRecord(1)) @@ (2 :> FreshRecord(2))

DirPlayed ==
  (1 :> PlayedRecord(1, 1540 * Scale, 20, 20, 10, 3000)) @@
  (2 :> PlayedRecord(2, 1500 * Scale, 25, 15, 10, 3000)) @@
  (3 :> PlayedRecord(3, 1460 * Scale, 30, 20, 10, 0))

InitialDirs == {DirFresh, DirPlayed}

\* clear_elos: the computed fields are reset, every other key is kept (the
\* keys of the files here are all among REQUIRED_KEYS, so both settings of
\* preserve_extra_keys give the same payload).
_reset_player_payload(payload) ==
  [k \in DOMAIN payload \cup {"elo", "faceoffs_taken", "offensive_faceoffs",
                              "defensive_faceoffs", "neutral_faceoffs"} |->
     IF k = "elo" THEN STARTING_ELO * Scale
     ELSE IF k \in {"faceoffs_taken", "offensive_faceoffs",
                    "defensive_faceoffs", "neutral_faceoffs"} THEN 0
     ELSE payload[k]]

\* DirPlayed after clear_elos.
DirReset == [f \in DOMAIN DirPlayed |-> _reset_player_payload(DirPlayed[f])]

\* The directories a first replay starts from: no file yet, the files of
\* init_player_elos, the files clear_elos leaves.
ResetDirs == {<<>>, DirFresh, DirReset}

\* A file json.load cannot parse, and a JSON object without player_id.
CorruptFile == [corrupt |-> TRUE]
NoIdFile ==
  [elo |-> 1540 * Scale, faceoffs_taken |-> 3, offensive_faceoffs |-> 1,
   defensive_faceoffs |-> 1, neutral_faceoffs |-> 1]

\* Directories with a bad file among good ones, first, in the middle, last.
DirCorrupt ==
  (1 :> FreshRecord(1)) @@ (2 :> CorruptFile) @@
  (3 :> PlayedRecord(3, 1460 * Scale, 30, 20, 10, 0))
DirNoId ==
  (1 :> NoIdFile) @@ (2 :> PlayedRecord(2, 1500 * Scale, 25, 15, 10, 3000)) @@
  (3 :> CorruptFile)
BadDirs == {DirCorrupt, DirNoId, DirPlayed}

\* The "details" of a faceoff row.  A key may be missing; zoneCode "X"
\* stands for any value other than "N", "O", "D".
Row(w, l, z) == [winningPlayerId |-> w, losingPlayerId |-> l, zoneCode |-> z]

\* Well-formed rows: two different players and a known zone.
CleanRows == { Row(1, 2, "N"), Row(2, 1, "O"), Row(3, 1, "D"), Row(2, 3, "N") }

\* Rows as the feed may deliver them: an id or the zone missing, an unknown
\* zone, the same player on both sides.
RawRows ==
  CleanRows \cup
  { Row(1, 2, "O"), Row(2, 1, "D"), Row(1, 2, "X"), Row(3, 2, "X"),
    [winningPlayerId |-> 2, losingPlayerId |-> 1],
    [winningPlayerId |-> 1, losingPlayerId |-> 3],
    [losingPlayerId |-> 2, zoneCode |-> "N"],
    [winningPlayerId |-> 1, zoneCode |-> "O"],
    [zoneCode |-> "D"],
    Row(1, 1, "N"), Row(2, 2, "O"), Row(3, 3, "D") }

RowsOf(data) == IF data = "clean" THEN CleanRows ELSE RawRows

\* The K candidates of a sweep and the --min-faceoffs-per-minute values
\* ({} is None, {m} is m faceoffs per minute).
KCandidates == {16, 32}
FpmOptions == {{}, {1}}

\* Row counts of the game files: every tuple of at most maxgames files
\* holding at most n rows in all.
GameSizes(n, maxgames) ==
  UNION { { s \in [1..g -> 0..n] : SumSeq(s) <= n } : g \in 0..maxgames }

KLists(n) == UNION { [1..c -> KCandidates] : c \in 1..n }

\* The parsed command line of optimize_k.py.  list_blank is
\* `not args.k_list.strip()`; k_list holds the integers of the non-blank
\* comma-separated tokens ("," gives no token at all).
Args(list_blank, k_list, k_min, k_max, k_step) ==
  [list_blank |-> list_blank, k_list |-> k_list,
   k_min |-> k_min, k_max |-> k_max, k_step |-> k_step]

\* --k-list with n or fewer candidates; the range options keep their
\* argparse defaults.
ListArgs(n) == { Args(FALSE, l, 5, 50, 5) : l \in KLists(n) }

\* Command lines that name no usable sweep: a candidate K <= 0 in the list
\* or in the range, a range with k-max < k-min, a step <= 0, a list with
\* no token; and one well-formed range.
EdgeArgs ==
  { Args(FALSE, <<0>>, 5, 50, 5), Args(FALSE, <<-16>>, 5, 50, 5),
    Args(FALSE, <<>>, 5, 50, 5),
    Args(TRUE, <<>>, 0, 0, 16), Args(TRUE, <<>>, 32, 16, 16),
    Args(TRUE, <<>>, 16, 32, 0), Args(TRUE, <<>>, 32, 32, 16) }

ArgsOf(data, n) ==
  IF data = "raw" THEN ListArgs(n) \cup EdgeArgs ELSE ListArgs(n)

\* The command line of a program that takes none.
NoArgs == Args(TRUE, <<>>, 0, 0, 0)

\* list(range(start, stop, step)) for step > 0.
RECURSIVE range(_, _, _)
range(start, stop, step) ==
  IF start >= stop THEN <<>>
  ELSE <<start>> \o range(start + step, stop, step)

\* What a findings file left by an earlier sweep holds.
OldFindings == <<"previous sweep">>

\* ------------------------------------------------------------- the state
VARIABLES
  prog,            \* which program runs: "calculate_elo" or "optimize_k"
  pc,              \* "args", "main", "loop", "done", "raised"
  args,            \* the parsed command line of optimize_k.py
  findings,        \* the lines of the findings file
  best,            \* __main__'s best result (NoRow: not chosen yet)
  elo_dir,         \* the player_elos directory: file name -> content
  faceoff_data,    \* the kind of rows in faceoff_data: "clean" or "raw"
  all_games,       \* row count of each *_faceoff_data.json, in sorted order
  rows_read,       \* the rows of the game files that a later pass re-reads
  k_values,        \* the sweep's candidates
  min_faceoffs_per_minute,
  initial_players, \* lru_cache of _load_initial_players: <<>> or <<dict>>
  all_results,     \* the results of the finished runs
  k_output,        \* the k=<K>_elos directories written, K -> players
  k_value,         \* the running candidate
  players,         \* the run's in-memory store
  rows_done,       \* rows of all_games the loop has passed
  fo,              \* the row the loop body last ran on (NoRow: none yet)
  train_faceoffs_target, val_faceoffs_target,
  train_faceoffs_assigned, val_faceoffs_assigned,
  train_faceoffs_processed, val_faceoffs_processed,
  total_log_loss, valid_predictions, skipped_faceoffs,
  skipped_low_faceoffs, skipped_low_faceoffs_per_minute,
  new_players_in_validation, training_complete,
  train_games_set, val_games_set,
  total_faceoffs,  \* run_elo_calculation's count of processed rows
  team1_ids, team2_ids,  \* matchup_elo: the ids left and right of "vs"
  players1, players2,    \* matchup_elo: the loaded records of each side
  weights1, weights2,    \* matchup_elo: the weights of each side
  overall_p1_win,        \* matchup_elo: <<>> or <<the probability>>
  rating_a, rating_b,    \* the arguments of a call of calculate_expected_score
  expected_ab, expected_ba, \* <<>> or <<what the call returned>>
  dry_run,               \* clear_elos: --dry-run
  files_done,            \* clear_elos: files of the directory passed
  changed, failed,       \* clear_elos: the two counts it returns
  segment,               \* two events replayed in both orders: the code path
  event_a, event_b,      \* the two events
  order_ab, order_ba,    \* <<>> or <<what a then b left>>, <<b then a>>
  on_ice,                \* monitor_loop: what the last poll returned
  prev_home_ids, prev_away_ids,  \* monitor_loop: the lineup last displayed
  home_elo_players, away_elo_players,  \* display_matchup: the records loaded
  shown,                 \* display_matchup: <<>>, the notice or the table
  polls                  \* monitor_loop: passes of the while loop

inputs == <<prog, elo_dir, faceoff_data, all_games, k_values, min_faceoffs_per_minute>>
split == <<train_faceoffs_target, val_faceoffs_target,
           train_faceoffs_assigned, val_faceoffs_assigned,
           train_faceoffs_processed, val_faceoffs_processed,
           training_complete, train_games_set, val_games_set>>
metrics == <<total_log_loss, valid_predictions, skipped_faceoffs,
             skipped_low_faceoffs, skipped_low_faceoffs_per_minute,
             new_players_in_validation>>
sweep == <<args, findings, best>>
matchup == <<team1_ids, team2_ids, players1, players2, weights1, weights2,
             overall_p1_win>>
scoring == <<rating_a, rating_b, expected_ab, expected_ba>>
clearing == <<dry_run, files_done, changed, failed>>
commuting == <<segment, event_a, event_b, order_ab, order_ba>>
monitoring == <<on_ice, prev_home_ids, prev_away_ids, home_elo_players,
                away_elo_players, shown, polls>>
vars == <<matchup, scoring, clearing, commuting, monitoring, inputs, pc, sweep, rows_read, initial_players, all_results, k_output,
          k_value, players, rows_done, fo, split, metrics, total_faceoffs>>

NoRow == [none |-> TRUE]

\* ------------------------------------------------------ optimize_k helpers
RequiredDefaults ==
  [elo |-> STARTING_ELO * Scale, faceoffs_taken |-> 0,
   offensive_faceoffs |-> 0, defensive_faceoffs |-> 0, neutral_faceoffs |-> 0]

\* A file json.load can read and whose player_id is not None.
Loadable(content) ==
  "corrupt" \notin DOMAIN content /\ "player_id" \in DOMAIN content

\* Every loadable file, keyed by its player_id, the five required keys
\* defaulted (setdefault keeps a present key); other keys are kept.
_load_initial_players(dir) ==
  LET good == { f \in DOMAIN dir : Loadable(dir[f]) }
      ids  == { dir[f].player_id : f \in good }
      file(id) == CHOOSE f \in good : dir[f].player_id = id
  IN  [id \in ids |-> dir[file(id)] @@ RequiredDefaults]

\* deepcopy: values here do not alias, so the copy is the value itself.
deepcopy(d) == d

\* The cached dict after the run stored `store` into its own players dict.
\* The run holds a deep copy, so its writes do not reach the cache.
AliasedBaseline(cache, store) == <<store>>
BaselineAfter(cache, store) == cache

TrainTargetRounded(total) == (total * SplitNum + 2) \div SplitDen
TrainTarget(total) == (total * SplitNum) \div SplitDen

\* A record created a hundred points under the start rating.
NewPlayerOffStart(player_id) ==
  [player_id |-> player_id, player_name |-> "Unknown Player",
   player_team |-> "Unknown Team", elo |-> (STARTING_ELO - 100) * Scale,
   faceoffs_taken |-> 0, offensive_faceoffs |-> 0,
   defensive_faceoffs |-> 0, neutral_faceoffs |-> 0,
   time_on_ice_seconds |-> 0]

NewPlayer(player_id) ==
  [player_id |-> player_id, player_name |-> "Unknown Player",
   player_team |-> "Unknown Team", elo |-> STARTING_ELO * Scale,
   faceoffs_taken |-> 0, offensive_faceoffs |-> 0,
   defensive_faceoffs |-> 0, neutral_faceoffs |-> 0,
   time_on_ice_seconds |-> 0]

\* A record made anew whether or not the store has one.
CreatePlayerAlways(ps, player_id) ==
  (player_id :> NewPlayer(player_id)) @@ ps

get_or_create_player(ps, player_id) ==
  IF player_id \in DOMAIN ps THEN ps ELSE ps @@ (player_id :> NewPlayer(player_id))

\* faceoffs per minute as the fraction <<numerator, denominator>>.
faceoffs_per_minute(player) ==
  LET toi_seconds == Get(player, "time_on_ice_seconds", 0)
  IN  IF toi_seconds <= 0 THEN <<0, 1>>
      ELSE <<Get(player, "faceoffs_taken", 0) * 60, toi_seconds>>

RateBelow(rate, m) == rate[1] < m * rate[2]

\* The zone counters of winner w and loser l; each write reads the store
\* the write before it left (w and l may be the same record).
ZoneCounts(ps, w, l, zone_code) ==
  IF zone_code = "N" THEN
    LET p1 == [ps EXCEPT ![w].neutral_faceoffs = @ + 1]
    IN  [p1 EXCEPT ![l].neutral_faceoffs = @ + 1]
  ELSE IF zone_code = "O" THEN
    LET p1 == [ps EXCEPT ![w].offensive_faceoffs = @ + 1]
    IN  [p1 EXCEPT ![l].defensive_faceoffs = @ + 1]
  ELSE IF zone_code = "D" THEN
    LET p1 == [ps EXCEPT ![w].defensive_faceoffs = @ + 1]
    IN  [p1 EXCEPT ![l].offensive_faceoffs = @ + 1]
  ELSE ps

\* The rating update without the faceoffs_taken count.
InlineUpdateUncounted(ps, w, l, zone_code, k) ==
  LET winner_expected == calculate_expected_score(ps[w].elo, ps[l].elo)
      loser_expected  == calculate_expected_score(ps[l].elo, ps[w].elo)
      p1 == [ps EXCEPT ![w].elo = update_elo(ps[w].elo, winner_expected, 1, k)]
      p2 == [p1 EXCEPT ![l].elo = update_elo(p1[l].elo, loser_expected, 0, k)]
  IN  ZoneCounts(p2, w, l, zone_code)

\* The rating and counter update written inline in both branches of
\* run_k_optimization: both expected scores are computed first, then the
\* winner's rating is stored, then the loser's is read and stored.
InlineUpdate(ps, w, l, zone_code, k) ==
  LET winner_expected == calculate_expected_score(ps[w].elo, ps[l].elo)
      loser_expected  == calculate_expected_score(ps[l].elo, ps[w].elo)
      p1 == [ps EXCEPT ![w].elo = update_elo(ps[w].elo, winner_expected, 1, k)]
      p2 == [p1 EXCEPT ![l].elo = update_elo(p1[l].elo, loser_expected, 0, k)]
      p3 == [p2 EXCEPT ![w].faceoffs_taken = @ + 1]
      p4 == [p3 EXCEPT ![l].faceoffs_taken = @ + 1]
  IN  ZoneCounts(p4, w, l, zone_code)

\* A filter outcome that no counter takes up.
FilterOutcomeUncounted(winner, loser, min_fpm) == "unknown_players"

\* The filter with "at least 50" for "more than 50".
FilterOutcomeAtLeast(winner, loser, min_fpm) ==
  LET winner_taken == Get(winner, "faceoffs_taken", 0)
      loser_taken  == Get(loser, "faceoffs_taken", 0)
  IN  IF winner_taken >= MinTaken /\ loser_taken >= MinTaken THEN
        IF min_fpm # {} THEN
          IF \E m \in min_fpm :
               \/ RateBelow(faceoffs_per_minute(winner), m)
               \/ RateBelow(faceoffs_per_minute(loser), m)
          THEN "low_faceoffs_per_minute"
          ELSE "scored"
        ELSE "scored"
      ELSE "low_faceoffs"

\* The log-loss filter of a validation row.
FilterOutcome(winner, loser, min_fpm) ==
  LET winner_taken == Get(winner, "faceoffs_taken", 0)
      loser_taken  == Get(loser, "faceoffs_taken", 0)
  IN  IF winner_taken > MinTaken /\ loser_taken > MinTaken THEN
        IF min_fpm # {} THEN
          IF \E m \in min_fpm :
               \/ RateBelow(faceoffs_per_minute(winner), m)
               \/ RateBelow(faceoffs_per_minute(loser), m)
          THEN "low_faceoffs_per_minute"
          ELSE "scored"
        ELSE "scored"
      ELSE "low_faceoffs"

\* The probability computed after the row's own update.
PostUpdateProb(ps, w, l) ==
  LET after == InlineUpdate(ps, w, l, "N", k_value)
  IN  calculate_expected_score(after[w].elo, after[l].elo)

\* The probability a validation row is scored with: computed from the
\* store as the row found it (players created, nothing updated yet).
PredictedProb(ps, w, l) == calculate_expected_score(ps[w].elo, ps[l].elo)

\* The update left out for a row the filter skipped.
UpdateOnlyIfScored(ps, w, l, zone_code, k, outcome) ==
  IF outcome = "scored" THEN InlineUpdate(ps, w, l, zone_code, k) ELSE ps

\* The update of a validation row: run for every outcome of the filter.
ValidationUpdate(ps, w, l, zone_code, k, outcome) ==
  InlineUpdate(ps, w, l, zone_code, k)

\* The mean that is 0.0 for a run without predictions.
AvgZeroWhenEmpty(total, n) == IF n > 0 THEN <<total, n>> ELSE <<0, 1>>

\* total_log_loss / valid_predictions as a fraction; <<1, 0>> is inf.
AvgLogLoss(total, n) == IF n > 0 THEN <<total, n>> ELSE <<1, 0>>

\* a < b for two such fractions.
LossLess(a, b) ==
  IF a[2] = 0 THEN FALSE
  ELSE IF b[2] = 0 THEN TRUE
  ELSE a[1] * b[2] < b[1] * a[2]

\* ---------------------------------------------------- calculate_elo helpers
\* process_faceoff: both ratings are read into locals before either write.
process_faceoff(winner_id, loser_id, zone_code, ps) ==
  LET winner_elo == ps[winner_id].elo
      loser_elo  == ps[loser_id].elo
      winner_expected == calculate_expected_score(winner_elo, loser_elo)
      loser_expected  == calculate_expected_score(loser_elo, winner_elo)
      p1 == [ps EXCEPT ![winner_id].elo =
                         update_elo(winner_elo, winner_expected, 1, K_FACTOR)]
      p2 == [p1 EXCEPT ![loser_id].elo =
                         update_elo(loser_elo, loser_expected, 0, K_FACTOR)]
      p3 == [p2 EXCEPT ![winner_id].faceoffs_taken = @ + 1]
      p4 == [p3 EXCEPT ![loser_id].faceoffs_taken = @ + 1]
  IN  ZoneCounts(p4, winner_id, loser_id, zone_code)

\* load_all_players raises on a file json.load cannot read or that has no
\* player_id.
CanLoadAll(dir) == \A f \in DOMAIN dir : Loadable(dir[f])
load_all_players(dir) ==
  [id \in { dir[f].player_id : f \in DOMAIN dir } |->
     dir[CHOOSE f \in DOMAIN dir : dir[f].player_id = id]]

save_all_players(ps, dir) == ps @@ dir

\* -------------------------------------------------------------- the start
total_faceoffs_all == SumSeq(all_games)

\* No group matchup is asked for.
\* No on-ice lineup of a poll.
NoLineup == [home |-> <<>>, away |-> <<>>]

\* clear_elos, the two-order replay and the live monitor do not run.
ClearIdle ==
  /\ dry_run = FALSE /\ files_done = 0 /\ changed = 0 /\ failed = 0
  /\ segment = "none" /\ event_a = NoRow /\ event_b = NoRow
  /\ order_ab = <<>> /\ order_ba = <<>>
  /\ on_ice = NoLineup /\ prev_home_ids = {} /\ prev_away_ids = {}
  /\ home_elo_players = <<>> /\ away_elo_players = <<>>
  /\ shown = <<>> /\ polls = 0

MatchupIdle ==
  /\ ClearIdle
  /\ rating_a = 0 /\ rating_b = 0 /\ expected_ab = <<>> /\ expected_ba = <<>>
  /\ team1_ids = <<>> /\ team2_ids = <<>>
  /\ players1 = <<>> /\ players2 = <<>>
  /\ weights1 = <<>> /\ weights2 = <<>>
  /\ overall_p1_win = <<>>

InitFrom(dirs, data, maxrows, maxgames, maxcands) ==
  /\ MatchupIdle
  /\ prog \in {"calculate_elo", "optimize_k"}
  /\ faceoff_data = data
  /\ elo_dir \in dirs
  /\ all_games \in GameSizes(maxrows, maxgames)
  /\ args \in ArgsOf(data, maxcands) \cup {NoArgs}
  /\ prog = "optimize_k" => args # NoArgs
  /\ min_faceoffs_per_minute \in FpmOptions
  /\ prog = "calculate_elo" =>
       args = NoArgs /\ min_faceoffs_per_minute = {}
  /\ k_values = IF prog = "calculate_elo" THEN <<K_FACTOR>> ELSE <<>>
  /\ pc = IF prog = "optimize_k" THEN "args" ELSE "main"
  /\ findings = OldFindings
  /\ best = NoRow
  /\ rows_read = <<>>
  /\ initial_players = <<>>
  /\ all_results = <<>>
  /\ k_output = <<>>
  /\ k_value = 0
  /\ players = <<>>
  /\ rows_done = 0
  /\ fo = NoRow
  /\ train_faceoffs_target = 0 /\ val_faceoffs_target = 0
  /\ train_faceoffs_assigned = 0 /\ val_faceoffs_assigned = 0
  /\ train_faceoffs_processed = 0 /\ val_faceoffs_processed = 0
  /\ total_log_loss = 0 /\ valid_predictions = 0 /\ skipped_faceoffs = 0
  /\ skipped_low_faceoffs = 0 /\ skipped_low_faceoffs_per_minute = 0
  /\ new_players_in_validation = 0 /\ training_complete = FALSE
  /\ train_games_set = {} /\ val_games_set = {}
  /\ total_faceoffs = 0

\* One candidate, one game file of up to MaxRows rows of any kind.
InitWith(data, maxrows, maxgames, maxcands) ==
  InitFrom(InitialDirs, data, maxrows, maxgames, maxcands)

Init == InitWith("raw", MaxRows, 1, 1)

\* A replay of rows as the feed delivers them over an empty, a new or a
\* reset directory.
InitReset == InitFrom(ResetDirs, "raw", MaxRows, 1, 1)

\* One candidate, one game file of up to MaxDeepRows well-formed rows.
InitDeep == InitWith("clean", MaxDeepRows, 1, 1)

\* Several candidates over several short game files of well-formed rows.
InitSweep == InitWith("clean", MaxSweepRows, MaxGames, MaxCandidates)

\* The file that holds row n (rows numbered 1.. over the sorted files).
FileOf(n) ==
  CHOOSE i \in 1..Len(all_games) :
    /\ SumSeq(SubSeq(all_games, 1, i - 1)) < n
    /\ n <= SumSeq(SubSeq(all_games, 1, i))

\* Row n as json.load returns it.  A row is any row of the data the first time it
\* is read; a row that a later run reads again is the row it was.
ReadRow(n) ==
  IF n <= Len(rows_read) THEN {rows_read[n]} ELSE RowsOf(faceoff_data)

Remember(n, row) ==
  IF n > Len(rows_read) /\ Len(all_results) + 1 < Len(k_values)
  THEN Append(rows_read, row) ELSE rows_read

\* ------------------------------------------------------------- optimize_k
\* __main__ from the parsed arguments to the sweep loop: the candidates are
\* determined (ValueError for a bad range or an empty list), then the
\* findings file is truncated and its header written.
KValuesOf(a) ==
  IF ~a.list_blank THEN a.k_list
  ELSE range(a.k_min, a.k_max + 1, a.k_step)

ArgsRaise(a) ==
  \/ a.list_blank /\ (a.k_step <= 0 \/ a.k_max < a.k_min)
  \/ KValuesOf(a) = <<>>

ParseArgs ==
  /\ prog = "optimize_k" /\ UNCHANGED <<matchup, scoring, clearing, commuting, monitoring>> /\ pc = "args"
  /\ IF ArgsRaise(args)
     THEN pc' = "raised" /\ UNCHANGED <<k_values, findings>>
     ELSE /\ k_values' = KValuesOf(args)
          /\ findings' = <<"header">>
          /\ pc' = "main"
  /\ UNCHANGED <<prog, elo_dir, faceoff_data, all_games,
                 min_faceoffs_per_minute, args, best, rows_read,
                 initial_players, all_results, k_output, k_value, players,
                 rows_done, fo, split, metrics, total_faceoffs>>

\* min(all_results, key=lambda x: x['log_loss']): the scan keeps the item
\* it holds unless a later one is strictly smaller.
RECURSIVE MinByLogLoss(_, _)
MinByLogLoss(held, rest) ==
  IF rest = <<>> THEN held
  ELSE MinByLogLoss(
         IF LossLess(Head(rest).log_loss, held.log_loss) THEN Head(rest)
         ELSE held,
         Tail(rest))

\* The scan that lets a later item with an equal key replace the held one.
MinLastWins(results) ==
  LET RECURSIVE scan(_, _)
      scan(held, rest) ==
        IF rest = <<>> THEN held
        ELSE scan(IF LossLess(held.log_loss, Head(rest).log_loss) THEN held
                  ELSE Head(rest),
                  Tail(rest))
  IN  scan(Head(results), Tail(results))

BestOf(results) == MinByLogLoss(Head(results), Tail(results))

\* __main__'s loop enters run_k_optimization for the next candidate, up to
\* the row loop.
RunStart ==
  /\ prog = "optimize_k" /\ UNCHANGED <<matchup, scoring, clearing, commuting, monitoring>> /\ pc = "main"
  /\ Len(all_results) < Len(k_values)
  /\ k_value' = k_values[Len(all_results) + 1]
  /\ initial_players' =
       IF initial_players = <<>> THEN <<_load_initial_players(elo_dir)>>
       ELSE initial_players
  /\ players' = deepcopy(initial_players'[1])
  /\ train_faceoffs_target' = TrainTarget(total_faceoffs_all)
  /\ val_faceoffs_target' = total_faceoffs_all - TrainTarget(total_faceoffs_all)
  /\ train_faceoffs_assigned' = 0 /\ val_faceoffs_assigned' = 0
  /\ train_faceoffs_processed' = 0 /\ val_faceoffs_processed' = 0
  /\ total_log_loss' = 0 /\ valid_predictions' = 0 /\ skipped_faceoffs' = 0
  /\ skipped_low_faceoffs' = 0 /\ skipped_low_faceoffs_per_minute' = 0
  /\ new_players_in_validation' = 0 /\ training_complete' = FALSE
  /\ train_games_set' = {} /\ val_games_set' = {}
  /\ rows_done' = 0 /\ fo' = NoRow
  /\ pc' = "loop"
  /\ UNCHANGED <<inputs, sweep, rows_read, all_results, k_output,
                 total_faceoffs>>

\* The training branch taking one row more than its target.
InTrainingLate == train_faceoffs_assigned <= train_faceoffs_target

\* The test that sends the next row to the training branch.
InTraining == train_faceoffs_assigned < train_faceoffs_target

\* One pass of the row loop through the training branch.
TrainRow ==
  /\ prog = "optimize_k" /\ UNCHANGED <<matchup, scoring, clearing, commuting, monitoring>> /\ pc = "loop"
  /\ rows_done < total_faceoffs_all
  /\ InTraining
  /\ \E row \in ReadRow(rows_done + 1) :
       LET winner_id == Get(row, "winningPlayerId", 0)
           loser_id  == Get(row, "losingPlayerId", 0)
           zone_code == Get(row, "zoneCode", "N")
           created   == get_or_create_player(
                          get_or_create_player(players, winner_id), loser_id)
       IN  /\ fo' = row
           /\ rows_read' = Remember(rows_done + 1, row)
           /\ train_games_set' = train_games_set \cup {FileOf(rows_done + 1)}
           /\ train_faceoffs_assigned' = train_faceoffs_assigned + 1
           /\ IF ~(Truthy(winner_id) /\ Truthy(loser_id))
              THEN UNCHANGED <<players, train_faceoffs_processed>>
              ELSE /\ players' = InlineUpdate(created, winner_id, loser_id,
                                              zone_code, k_value)
                   /\ train_faceoffs_processed' = train_faceoffs_processed + 1
  /\ rows_done' = rows_done + 1
  /\ initial_players' = BaselineAfter(initial_players, players')
  /\ UNCHANGED <<inputs, pc, sweep, all_results, k_output, k_value,
                 train_faceoffs_target, val_faceoffs_target,
                 val_faceoffs_assigned, val_faceoffs_processed,
                 training_complete, val_games_set, metrics, total_faceoffs>>

\* One pass of the row loop through the validation branch.
ValRow ==
  /\ prog = "optimize_k" /\ UNCHANGED <<matchup, scoring, clearing, commuting, monitoring>> /\ pc = "loop"
  /\ rows_done < total_faceoffs_all
  /\ ~InTraining
  /\ \E row \in ReadRow(rows_done + 1) :
       LET winner_id == Get(row, "winningPlayerId", 0)
           loser_id  == Get(row, "losingPlayerId", 0)
           zone_code == Get(row, "zoneCode", "N")
           created   == get_or_create_player(
                          get_or_create_player(players, winner_id), loser_id)
           outcome   == FilterOutcome(created[winner_id], created[loser_id],
                                      min_faceoffs_per_minute)
           predicted_prob == PredictedProb(created, winner_id, loser_id)
       IN  /\ fo' = row
           /\ rows_read' = Remember(rows_done + 1, row)
           /\ training_complete' = TRUE
           /\ val_games_set' = val_games_set \cup {FileOf(rows_done + 1)}
           /\ val_faceoffs_assigned' = val_faceoffs_assigned + 1
           /\ IF ~(Truthy(winner_id) /\ Truthy(loser_id))
              THEN UNCHANGED <<players, val_faceoffs_processed, metrics>>
              ELSE /\ new_players_in_validation' =
                        new_players_in_validation
                        + Cardinality({winner_id, loser_id} \ DOMAIN players)
                   /\ total_log_loss' =
                        IF outcome = "scored"
                        THEN total_log_loss + log_loss_single(predicted_prob, 1)
                        ELSE total_log_loss
                   /\ valid_predictions' =
                        IF outcome = "scored" THEN valid_predictions + 1
                        ELSE valid_predictions
                   /\ skipped_low_faceoffs_per_minute' =
                        IF outcome = "low_faceoffs_per_minute"
                        THEN skipped_low_faceoffs_per_minute + 1
                        ELSE skipped_low_faceoffs_per_minute
                   /\ skipped_low_faceoffs' =
                        IF outcome = "low_faceoffs"
                        THEN skipped_low_faceoffs + 1
                        ELSE skipped_low_faceoffs
                   /\ players' = ValidationUpdate(created, winner_id, loser_id,
                                                  zone_code, k_value, outcome)
                   /\ val_faceoffs_processed' = val_faceoffs_processed + 1
                   /\ UNCHANGED skipped_faceoffs
  /\ rows_done' = rows_done + 1
  /\ initial_players' = BaselineAfter(initial_players, players')
  /\ UNCHANGED <<inputs, pc, sweep, all_results, k_output, k_value,
                 train_faceoffs_target, val_faceoffs_target,
                 train_faceoffs_assigned, train_faceoffs_processed,
                 train_games_set, total_faceoffs>>

\* The end of run_k_optimization: the final store is written to
\* k=<K>_elos and the results are returned and appended to all_results.
RunFinish ==
  /\ prog = "optimize_k" /\ UNCHANGED <<matchup, scoring, clearing, commuting, monitoring>> /\ pc = "loop"
  /\ rows_done = total_faceoffs_all
  /\ k_output' = (k_value :> players) @@ k_output
  /\ all_results' = Append(all_results,
       [k_value |-> k_value,
        total_games |-> Len(all_games),
        total_faceoffs |-> total_faceoffs_all,
        train_games |-> Cardinality(train_games_set),
        val_games |-> Cardinality(val_games_set),
        train_faceoffs_target |-> train_faceoffs_target,
        val_faceoffs_target |-> val_faceoffs_target,
        train_faceoffs_assigned |-> train_faceoffs_assigned,
        val_faceoffs_assigned |-> val_faceoffs_assigned,
        train_faceoffs_processed |-> train_faceoffs_processed,
        val_faceoffs_processed |-> val_faceoffs_processed,
        val_faceoffs_evaluated |-> valid_predictions,
        val_faceoffs_skipped |-> skipped_faceoffs,
        val_faceoffs_skipped_low_faceoffs |-> skipped_low_faceoffs,
        val_faceoffs_skipped_low_faceoffs_per_minute |->
          skipped_low_faceoffs_per_minute,
        val_new_players |-> new_players_in_validation,
        log_loss |-> AvgLogLoss(total_log_loss, valid_predictions),
        better_than_random |->
          LossLess(AvgLogLoss(total_log_loss, valid_predictions), <<693, 1>>)])
  /\ findings' = Append(findings, "run")
  /\ pc' = "main"
  /\ UNCHANGED <<inputs, args, best, rows_read, initial_players, k_value,
                 players, rows_done, fo, split, metrics, total_faceoffs>>

\* __main__ after the last candidate.
Summary ==
  /\ prog = "optimize_k" /\ UNCHANGED <<matchup, scoring, clearing, commuting, monitoring>> /\ pc = "main"
  /\ Len(all_results) = Len(k_values)
  /\ best' = BestOf(all_results)
  /\ findings' = Append(findings, "summary")
  /\ pc' = "done"
  /\ UNCHANGED <<inputs, args, rows_read, initial_players, all_results,
                 k_output, k_value, players, rows_done, fo, split, metrics,
                 total_faceoffs>>

\* ---------------------------------------------------------- calculate_elo
\* run_elo_calculation up to its row loop.
CalcStart ==
  /\ prog = "calculate_elo" /\ UNCHANGED <<matchup, scoring, clearing, commuting, monitoring>> /\ pc = "main"
  /\ IF CanLoadAll(elo_dir)
     THEN players' = load_all_players(elo_dir) /\ pc' = "loop"
     ELSE pc' = "raised" /\ UNCHANGED players
  /\ UNCHANGED <<inputs, sweep, rows_read, initial_players, all_results,
                 k_output, k_value, rows_done, fo, split, metrics,
                 total_faceoffs>>

\* One pass of run_elo_calculation's row loop; players[winner_id] raises
\* KeyError for an id that has no file.
CalcRow ==
  /\ prog = "calculate_elo" /\ UNCHANGED <<matchup, scoring, clearing, commuting, monitoring>> /\ pc = "loop"
  /\ rows_done < total_faceoffs_all
  /\ \E row \in RowsOf(faceoff_data) :
       LET winner_id == Get(row, "winningPlayerId", 0)
           loser_id  == Get(row, "losingPlayerId", 0)
           zone_code == Get(row, "zoneCode", "N")
       IN  /\ fo' = row
           /\ IF Truthy(winner_id) /\ Truthy(loser_id)
              THEN IF {winner_id, loser_id} \subseteq DOMAIN players
                   THEN /\ players' = process_faceoff(winner_id, loser_id,
                                                      zone_code, players)
                        /\ total_faceoffs' = total_faceoffs + 1
                        /\ pc' = "loop"
                   ELSE pc' = "raised" /\ UNCHANGED <<players, total_faceoffs>>
              ELSE UNCHANGED <<players, total_faceoffs, pc>>
  /\ rows_done' = rows_done + 1
  /\ UNCHANGED <<inputs, sweep, rows_read, initial_players, all_results,
                 k_output, k_value, split, metrics>>

\* save_all_players at the end of run_elo_calculation.
CalcFinish ==
  /\ prog = "calculate_elo" /\ UNCHANGED <<matchup, scoring, clearing, commuting, monitoring>> /\ pc = "loop"
  /\ rows_done = total_faceoffs_all
  /\ elo_dir' = save_all_players(players, elo_dir)
  /\ pc' = "done"
  /\ UNCHANGED <<prog, faceoff_data, all_games, k_values,
                 min_faceoffs_per_minute, sweep, rows_read, initial_players,
                 all_results, k_output, k_value, players, rows_done, fo,
                 split, metrics, total_faceoffs>>

Next ==
  \/ ParseArgs
  \/ RunStart \/ TrainRow \/ ValRow \/ RunFinish \/ Summary
  \/ CalcStart \/ CalcRow \/ CalcFinish

Spec == Init /\ [][Next]_vars

SpecDeep == InitDeep /\ [][Next]_vars

SpecSweep == InitSweep /\ [][Next]_vars
SpecReset == InitReset /\ [][Next]_vars

\* ------------------------------------------------- live_runs/matchup_elo
\* Exact fractions <<numerator, denominator>> (denominator > 0, lowest
\* terms) stand for the floats of the weight computation.
RECURSIVE GCD(_, _)
GCD(a, b) == IF b = 0 THEN a ELSE GCD(b, a % b)

Abs(n) == IF n < 0 THEN -n ELSE n

Frac(n, d) ==
  LET g == GCD(Abs(n), Abs(d))
  IN  IF d < 0 THEN <<(-n) \div g, (-d) \div g>> ELSE <<n \div g, d \div g>>

\* Sums over the least common denominator and products of cross-reduced
\* operands, so that intermediate integers stay small.
RAdd(a, b) ==
  LET g == GCD(a[2], b[2])
  IN  Frac(a[1] * (b[2] \div g) + b[1] * (a[2] \div g), (a[2] \div g) * b[2])
RMul(a, b) ==
  LET x == Frac(a[1], b[2])
      y == Frac(b[1], a[2])
  IN  <<x[1] * y[1], x[2] * y[2]>>
RDiv(a, b) == RMul(a, Frac(b[2], b[1]))
RPositive(a) == a[1] > 0

RECURSIVE RSum(_)
RSum(s) == IF s = <<>> THEN <<0, 1>> ELSE RAdd(Head(s), RSum(Tail(s)))

\* The default alpha = 0.8 and beta = 0.2 of get_player_weights.
Alpha == <<4, 5>>
Beta == <<1, 5>>

\* The player_elos directory a matchup reads: records with and without
\* activity, without time on ice, without the count fields, and one as
\* init_player_elos writes it (no name, no time on ice).
Named(id, elo, fields) ==
  [player_id |-> id, player_name |-> "Name", elo |-> elo * Scale] @@ fields

MatchupDir ==
  (1 :> Named(1, 1600, [faceoffs_taken |-> 60, time_on_ice_seconds |-> 3000])) @@
  (2 :> Named(2, 1500, [faceoffs_taken |-> 30, time_on_ice_seconds |-> 0])) @@
  (3 :> Named(3, 1400, [faceoffs_taken |-> 0, time_on_ice_seconds |-> 600])) @@
  (4 :> Named(4, 1500, [player_team |-> "TEAM"])) @@
  (5 :> FreshRecord(5)) @@
  (6 :> Named(6, 1540, [faceoffs_taken |-> 45, time_on_ice_seconds |-> 1800]))

\* The ids a command line may name; 9 has no file.
MatchupIds == (DOMAIN MatchupDir) \cup {9}

SidesUpTo(n) == UNION { [1..c -> MatchupIds] : c \in 0..n }

\* faceoffs_per_minute of matchup_elo.py: taken / (seconds / 60.0).
faceoffs_per_minute_matchup(player) ==
  LET seconds == Get(player, "time_on_ice_seconds", 0)
      taken   == Get(player, "faceoffs_taken", 0)
  IN  IF seconds <= 0 THEN <<0, 1>> ELSE Frac(taken * 60, seconds)

win_probability(elo1, elo2) == calculate_expected_score(elo1, elo2)

\* The normalization whose fallback is a list of zeros.
NormalizedZeroFallback(xs) ==
  LET total == RSum(xs)
  IN  IF RPositive(total) THEN [i \in DOMAIN xs |-> RDiv(xs[i], total)]
      ELSE [i \in DOMAIN xs |-> <<0, 1>>]

\* [x / total for x in xs], or the uniform list when total is not positive.
Normalized(xs) ==
  LET total == RSum(xs)
  IN  IF RPositive(total) THEN [i \in DOMAIN xs |-> RDiv(xs[i], total)]
      ELSE [i \in DOMAIN xs |-> <<1, Len(xs)>>]

\* get_player_weights where it returns.
get_player_weights(ps, alpha, beta) ==
  IF ps = <<>> THEN <<>>
  ELSE IF Len(ps) = 1 THEN << <<1, 1>> >>
  ELSE
    LET fpm_norm == Normalized([i \in DOMAIN ps |->
                                  faceoffs_per_minute_matchup(ps[i])])
        faceoffs_norm == Normalized([i \in DOMAIN ps |->
                           <<Get(ps[i], "faceoffs_taken", 0), 1>>])
        weights == [i \in DOMAIN ps |->
                      RAdd(RMul(alpha, fpm_norm[i]),
                           RMul(beta, faceoffs_norm[i]))]
        w_sum == RSum(weights)
    IN  IF ~RPositive(w_sum) THEN [i \in DOMAIN ps |-> <<1, Len(ps)>>]
        ELSE [i \in DOMAIN ps |-> RDiv(weights[i], w_sum)]

\* get_player_weights raises KeyError: its log lines read
\* players[0]['player_name'] (one player) or p['player_name'] of every
\* player (two or more).
WeightsRaise(ps) == \E i \in DOMAIN ps : "player_name" \notin DOMAIN ps[i]

\* The pair loop that weighs a pair by the first side's weight alone.
RECURSIVE PairSumOneSided(_, _, _, _, _)
PairSumOneSided(ps1, ps2, w1, w2, n) ==
  IF n = 0 THEN <<0, 1>>
  ELSE LET i == ((n - 1) \div Len(ps2)) + 1
           j == ((n - 1) % Len(ps2)) + 1
           p1_win_prob == win_probability(ps1[i].elo, ps2[j].elo)
       IN  RAdd(PairSumOneSided(ps1, ps2, w1, w2, n - 1),
                RMul(<<p1_win_prob, 1>>, w1[i]))

\* The double loop of main over the pairs: the sum of
\* win_probability * weights1[i] * weights2[j], in 1/Scale.
RECURSIVE PairSum(_, _, _, _, _)
PairSum(ps1, ps2, w1, w2, n) ==
  IF n = 0 THEN <<0, 1>>
  ELSE LET i == ((n - 1) \div Len(ps2)) + 1
           j == ((n - 1) % Len(ps2)) + 1
           p1_win_prob == win_probability(ps1[i].elo, ps2[j].elo)
           matchup_weight == RMul(w1[i], w2[j])
       IN  RAdd(PairSum(ps1, ps2, w1, w2, n - 1),
                RMul(<<p1_win_prob, 1>>, matchup_weight))

\* No program of the replay runs.
ReplayIdle ==
  /\ faceoff_data = "clean" /\ all_games = <<>> /\ k_values = <<>>
  /\ min_faceoffs_per_minute = {}
  /\ args = NoArgs /\ findings = OldFindings /\ best = NoRow
  /\ rows_read = <<>> /\ initial_players = <<>> /\ all_results = <<>>
  /\ k_output = <<>> /\ k_value = 0 /\ players = <<>>
  /\ rows_done = 0 /\ fo = NoRow
  /\ train_faceoffs_target = 0 /\ val_faceoffs_target = 0
  /\ train_faceoffs_assigned = 0 /\ val_faceoffs_assigned = 0
  /\ train_faceoffs_processed = 0 /\ val_faceoffs_processed = 0
  /\ total_log_loss = 0 /\ valid_predictions = 0 /\ skipped_faceoffs = 0
  /\ skipped_low_faceoffs = 0 /\ skipped_low_faceoffs_per_minute = 0
  /\ new_players_in_validation = 0 /\ training_complete = FALSE
  /\ train_games_set = {} /\ val_games_set = {}
  /\ total_faceoffs = 0

InitMatchup ==
  /\ prog = "matchup_elo" /\ pc = "main"
  /\ ClearIdle
  /\ rating_a = 0 /\ rating_b = 0 /\ expected_ab = <<>> /\ expected_ba = <<>>
  /\ ReplayIdle
  /\ elo_dir = MatchupDir
  /\ team1_ids \in SidesUpTo(MaxSide) /\ team2_ids \in SidesUpTo(MaxSide)
  /\ players1 = <<>> /\ players2 = <<>>
  /\ weights1 = <<>> /\ weights2 = <<>>
  /\ overall_p1_win = <<>>

\* What a matchup leaves alone: everything but its own variables and pc.
replay == <<inputs, sweep, rows_read, initial_players, all_results, k_output,
            k_value, players, rows_done, fo, split, metrics, total_faceoffs>>

\* main up to the weights: both sides need an id, and every id a file.
MatchupLoad ==
  /\ prog = "matchup_elo" /\ pc = "main"
  /\ IF team1_ids = <<>> \/ team2_ids = <<>>
     THEN pc' = "returned" /\ UNCHANGED <<players1, players2>>
     ELSE IF \E i \in DOMAIN team1_ids : team1_ids[i] \notin DOMAIN elo_dir
     THEN pc' = "returned" /\ UNCHANGED <<players1, players2>>
     ELSE IF \E i \in DOMAIN team2_ids : team2_ids[i] \notin DOMAIN elo_dir
     THEN pc' = "returned" /\ UNCHANGED <<players1, players2>>
     ELSE /\ players1' = [i \in DOMAIN team1_ids |-> elo_dir[team1_ids[i]]]
          /\ players2' = [i \in DOMAIN team2_ids |-> elo_dir[team2_ids[i]]]
          /\ pc' = "loaded"
  /\ UNCHANGED <<replay, scoring, clearing, commuting, monitoring, team1_ids, team2_ids, weights1, weights2,
                 overall_p1_win>>

\* The two calls of get_player_weights.
MatchupWeights ==
  /\ prog = "matchup_elo" /\ pc = "loaded"
  /\ IF WeightsRaise(players1)
     THEN pc' = "raised" /\ UNCHANGED <<weights1, weights2>>
     ELSE /\ weights1' = get_player_weights(players1, Alpha, Beta)
          /\ IF WeightsRaise(players2)
             THEN pc' = "raised" /\ UNCHANGED weights2
             ELSE /\ weights2' = get_player_weights(players2, Alpha, Beta)
                  /\ pc' = "weighted"
  /\ UNCHANGED <<replay, scoring, clearing, commuting, monitoring, team1_ids, team2_ids, players1, players2,
                 overall_p1_win>>

\* The pair loop and the two OVERALL WIN PROBABILITY lines.
MatchupProbability ==
  /\ prog = "matchup_elo" /\ pc = "weighted"
  /\ overall_p1_win' = << PairSum(players1, players2, weights1, weights2,
                                  Len(players1) * Len(players2)) >>
  /\ pc' = "done"
  /\ UNCHANGED <<replay, scoring, clearing, commuting, monitoring, team1_ids, team2_ids, players1, players2,
                 weights1, weights2>>

NextMatchup == MatchupLoad \/ MatchupWeights \/ MatchupProbability

SpecMatchup == InitMatchup /\ [][NextMatchup]_vars

\* -------------------------------------------------------------- clear_elos
\* Every file of the directories here was written by json.dump without a
\* final newline (init_player_elos, save_all_players, the enrichment
\* scripts), so the normalised text clear_elos compares with always
\* differs from the file's text: a readable file counts as changed.
InitClear ==
  /\ prog = "clear_elos" /\ pc = "main"
  /\ elo_dir \in BadDirs
  /\ dry_run \in BOOLEAN
  /\ files_done = 0 /\ changed = 0 /\ failed = 0
  /\ segment = "none" /\ event_a = NoRow /\ event_b = NoRow
  /\ order_ab = <<>> /\ order_ba = <<>>
  /\ on_ice = NoLineup /\ prev_home_ids = {} /\ prev_away_ids = {}
  /\ home_elo_players = <<>> /\ away_elo_players = <<>>
  /\ shown = <<>> /\ polls = 0
  /\ rating_a = 0 /\ rating_b = 0 /\ expected_ab = <<>> /\ expected_ba = <<>>
  /\ team1_ids = <<>> /\ team2_ids = <<>>
  /\ players1 = <<>> /\ players2 = <<>>
  /\ weights1 = <<>> /\ weights2 = <<>>
  /\ overall_p1_win = <<>>
  /\ ReplayIdle

\* One pass of clear_elos' loop over the sorted files: json.loads raising
\* is caught and counted, any JSON object is reset and written back.
ClearFile ==
  /\ prog = "clear_elos" /\ pc = "main"
  /\ files_done < Cardinality(DOMAIN elo_dir)
  /\ LET json_path == files_done + 1
         payload == elo_dir[json_path]
     IN  IF "corrupt" \in DOMAIN payload
         THEN failed' = failed + 1 /\ UNCHANGED <<changed, elo_dir>>
         ELSE /\ changed' = changed + 1
              /\ elo_dir' =
                   IF dry_run THEN elo_dir
                   ELSE [elo_dir EXCEPT
                           ![json_path] = _reset_player_payload(payload)]
              /\ UNCHANGED failed
  /\ files_done' = files_done + 1
  /\ UNCHANGED <<matchup, scoring, commuting, monitoring, dry_run, pc, sweep, rows_read,
                 initial_players, all_results, k_output, k_value, players,
                 rows_done, fo, split, metrics, total_faceoffs, prog,
                 faceoff_data, all_games, k_values, min_faceoffs_per_minute>>

\* clear_elos returns (changed, failed) and main prints them.
ClearReturn ==
  /\ prog = "clear_elos" /\ pc = "main"
  /\ files_done = Cardinality(DOMAIN elo_dir)
  /\ pc' = "done"
  /\ UNCHANGED <<replay, matchup, scoring, clearing, commuting, monitoring>>

\* The replay programs and clear_elos over directories with bad files.
InitBad == InitFrom(BadDirs, "clean", MaxRows, 1, 1) \/ InitClear
NextBad == Next \/ ClearFile \/ ClearReturn
SpecBad == InitBad /\ [][NextBad]_vars

\* ---------------------------------------------------- live_matchup_monitor
\* The lineups the feed can report: sequences of NHL ids per side, 0 for a
\* player object that carries no usable id, 9 for a player without a file,
\* 5 for a player whose file has no player_name.
OnIceOptions ==
  { [home |-> <<1>>,    away |-> <<2>>],
    [home |-> <<1, 4>>, away |-> <<2, 6>>],
    [home |-> <<1, 0>>, away |-> <<2>>],
    [home |-> <<3>>,    away |-> <<0, 6>>],
    [home |-> <<1, 9>>, away |-> <<2>>],
    [home |-> <<9>>,    away |-> <<2>>],
    [home |-> <<1>>,    away |-> <<9, 2>>],
    [home |-> <<>>,     away |-> <<2>>],
    [home |-> <<0>>,    away |-> <<2>>],
    [home |-> <<1>>,    away |-> <<>>],
    [home |-> <<5>>,    away |-> <<2>>] }

\* The ids _extract_player_id finds, in order.
ExtractedIds(raw) == SelectSeq(raw, LAMBDA i : i # 0)

\* The set of ids of a side, as monitor_loop compares it.
CurIds(raw) == {raw[i] : i \in DOMAIN raw} \ {0}

\* load_player opens the file of the id and raises when there is none.
LoadRaises(player_ids, dir) ==
  \E i \in DOMAIN player_ids : player_ids[i] \notin DOMAIN dir

\* _load_elo_players over ids that all have a file.
_load_elo_players(player_ids, dir) ==
  [i \in DOMAIN player_ids |-> dir[player_ids[i]]]

\* display_matchup: what it leaves of the two loaded sides and of the
\* output, and whether it raised.
display_matchup(home_raw, away_raw, dir) ==
  LET home_ids == ExtractedIds(home_raw)
      away_ids == ExtractedIds(away_raw)
  IN  IF LoadRaises(home_ids, dir)
      THEN [raised |-> TRUE, home |-> <<>>, away |-> <<>>, shown |-> <<>>]
      ELSE IF LoadRaises(away_ids, dir)
      THEN [raised |-> TRUE, home |-> _load_elo_players(home_ids, dir),
            away |-> <<>>, shown |-> <<>>]
      ELSE
        LET hs == _load_elo_players(home_ids, dir)
            as == _load_elo_players(away_ids, dir)
        IN  IF hs = <<>> \/ as = <<>>
            THEN [raised |-> FALSE, home |-> hs, away |-> as,
                  shown |-> <<"notice">>]
            ELSE IF WeightsRaise(hs) \/ WeightsRaise(as)
            THEN [raised |-> TRUE, home |-> hs, away |-> as, shown |-> <<>>]
            ELSE [raised |-> FALSE, home |-> hs, away |-> as,
                  shown |-> <<"table",
                              PairSum(hs, as,
                                      get_player_weights(hs, Alpha, Beta),
                                      get_player_weights(as, Alpha, Beta),
                                      Len(hs) * Len(as))>>]

InitMonitor ==
  /\ prog = "live_matchup_monitor" /\ pc = "poll"
  /\ ClearIdle
  /\ rating_a = 0 /\ rating_b = 0 /\ expected_ab = <<>> /\ expected_ba = <<>>
  /\ ReplayIdle
  /\ elo_dir = MatchupDir
  /\ team1_ids = <<>> /\ team2_ids = <<>>
  /\ players1 = <<>> /\ players2 = <<>>
  /\ weights1 = <<>> /\ weights2 = <<>>
  /\ overall_p1_win = <<>>

\* get_players_on_ice raised: the message, the sleep, the next poll.
MonitorFetchError ==
  /\ prog = "live_matchup_monitor" /\ pc = "poll" /\ polls < MaxPolls
  /\ polls' = polls + 1
  /\ UNCHANGED <<replay, matchup, scoring, clearing, commuting, pc, on_ice,
                 prev_home_ids, prev_away_ids, home_elo_players,
                 away_elo_players, shown>>

\* The lineup is the one shown last: only the timestamp line.
MonitorUnchanged ==
  /\ prog = "live_matchup_monitor" /\ pc = "poll" /\ polls < MaxPolls
  /\ \E lineup \in OnIceOptions :
       /\ CurIds(lineup.home) = prev_home_ids
       /\ CurIds(lineup.away) = prev_away_ids
       /\ prev_home_ids # {}
       /\ on_ice' = lineup
  /\ polls' = polls + 1
  /\ UNCHANGED <<replay, matchup, scoring, clearing, commuting, pc,
                 prev_home_ids, prev_away_ids, home_elo_players,
                 away_elo_players, shown>>

\* A new lineup, or none shown yet for the home side: display_matchup,
\* then the lineup is remembered; an exception of display_matchup leaves
\* the loop.
MonitorDisplay ==
  /\ prog = "live_matchup_monitor" /\ pc = "poll" /\ polls < MaxPolls
  /\ \E lineup \in OnIceOptions :
       LET d == display_matchup(lineup.home, lineup.away, elo_dir)
       IN  /\ \/ CurIds(lineup.home) # prev_home_ids
              \/ CurIds(lineup.away) # prev_away_ids
              \/ prev_home_ids = {}
           /\ on_ice' = lineup
           /\ home_elo_players' = d.home
           /\ away_elo_players' = d.away
           /\ shown' = d.shown
           /\ IF d.raised
              THEN pc' = "raised" /\ UNCHANGED <<prev_home_ids, prev_away_ids>>
              ELSE /\ pc' = "poll"
                   /\ prev_home_ids' = CurIds(lineup.home)
                   /\ prev_away_ids' = CurIds(lineup.away)
  /\ polls' = polls + 1
  /\ UNCHANGED <<replay, matchup, scoring, clearing, commuting>>

NextMonitor == MonitorFetchError \/ MonitorUnchanged \/ MonitorDisplay
SpecMonitor == InitMonitor /\ [][NextMonitor]_vars

\* ------------------------------------------- two events in both orders
\* A store of four players who all have more than MinTaken faceoffs.
DirSeasoned ==
  (1 :> PlayedRecord(1, 1540 * Scale, 30, 20, 10, 3000)) @@
  (2 :> PlayedRecord(2, 1500 * Scale, 25, 25, 10, 3000)) @@
  (3 :> PlayedRecord(3, 1460 * Scale, 30, 20, 10, 0)) @@
  (4 :> PlayedRecord(4, 1580 * Scale, 20, 20, 20, 1800))

\* The rows of the feed and two rows of a second pair of players.
CommuteRows == RawRows \cup {Row(3, 4, "O"), Row(4, 3, "N")}

\* The ids of a row that are present.
Participants(row) ==
  {Get(row, "winningPlayerId", 0), Get(row, "losingPlayerId", 0)} \ {0}

\* The store and the validation metrics at a point of a segment.
Tally(ps) ==
  [players |-> ps, total_log_loss |-> 0, valid_predictions |-> 0,
   skipped_low_faceoffs |-> 0, skipped_low_faceoffs_per_minute |-> 0,
   new_players_in_validation |-> 0]

\* The body of run_elo_calculation's row loop on a store that holds the
\* row's players.
CalcEvent(st, row) ==
  LET winner_id == Get(row, "winningPlayerId", 0)
      loser_id  == Get(row, "losingPlayerId", 0)
  IN  IF Truthy(winner_id) /\ Truthy(loser_id)
      THEN [st EXCEPT !.players =
              process_faceoff(winner_id, loser_id,
                              Get(row, "zoneCode", "N"), st.players)]
      ELSE st

\* The training branch of run_k_optimization on one row.
TrainEvent(st, row, k) ==
  LET winner_id == Get(row, "winningPlayerId", 0)
      loser_id  == Get(row, "losingPlayerId", 0)
      created   == get_or_create_player(
                     get_or_create_player(st.players, winner_id), loser_id)
  IN  IF Truthy(winner_id) /\ Truthy(loser_id)
      THEN [st EXCEPT !.players =
              InlineUpdate(created, winner_id, loser_id,
                           Get(row, "zoneCode", "N"), k)]
      ELSE st

\* The validation branch that scores only the first event it can.
ValEventFirstOnly(st, row, k, min_fpm) ==
  LET winner_id == Get(row, "winningPlayerId", 0)
      loser_id  == Get(row, "losingPlayerId", 0)
      created   == get_or_create_player(
                     get_or_create_player(st.players, winner_id), loser_id)
      outcome   == FilterOutcome(created[winner_id], created[loser_id], min_fpm)
      scored    == outcome = "scored" /\ st.valid_predictions = 0
  IN  IF Truthy(winner_id) /\ Truthy(loser_id)
      THEN [players |->
              ValidationUpdate(created, winner_id, loser_id,
                               Get(row, "zoneCode", "N"), k, outcome),
            total_log_loss |->
              st.total_log_loss
              + (IF scored
                 THEN log_loss_single(
                        PredictedProb(created, winner_id, loser_id), 1)
                 ELSE 0),
            valid_predictions |->
              st.valid_predictions + (IF scored THEN 1 ELSE 0),
            skipped_low_faceoffs |->
              st.skipped_low_faceoffs
              + (IF outcome = "low_faceoffs" THEN 1 ELSE 0),
            skipped_low_faceoffs_per_minute |->
              st.skipped_low_faceoffs_per_minute
              + (IF outcome = "low_faceoffs_per_minute" THEN 1 ELSE 0),
            new_players_in_validation |->
              st.new_players_in_validation
              + Cardinality({winner_id, loser_id} \ DOMAIN st.players)]
      ELSE st

\* The validation branch of run_k_optimization on one row.
ValEvent(st, row, k, min_fpm) ==
  LET winner_id == Get(row, "winningPlayerId", 0)
      loser_id  == Get(row, "losingPlayerId", 0)
      created   == get_or_create_player(
                     get_or_create_player(st.players, winner_id), loser_id)
      outcome   == FilterOutcome(created[winner_id], created[loser_id], min_fpm)
  IN  IF Truthy(winner_id) /\ Truthy(loser_id)
      THEN [players |->
              ValidationUpdate(created, winner_id, loser_id,
                               Get(row, "zoneCode", "N"), k, outcome),
            total_log_loss |->
              st.total_log_loss
              + (IF outcome = "scored"
                 THEN log_loss_single(
                        PredictedProb(created, winner_id, loser_id), 1)
                 ELSE 0),
            valid_predictions |->
              st.valid_predictions + (IF outcome = "scored" THEN 1 ELSE 0),
            skipped_low_faceoffs |->
              st.skipped_low_faceoffs
              + (IF outcome = "low_faceoffs" THEN 1 ELSE 0),
            skipped_low_faceoffs_per_minute |->
              st.skipped_low_faceoffs_per_minute
              + (IF outcome = "low_faceoffs_per_minute" THEN 1 ELSE 0),
            new_players_in_validation |->
              st.new_players_in_validation
              + Cardinality({winner_id, loser_id} \ DOMAIN st.players)]
      ELSE st

\* One row through the code path seg.
EventIn(seg, st, row, k, min_fpm) ==
  IF seg = "process_faceoff" THEN CalcEvent(st, row)
  ELSE IF seg = "training" THEN TrainEvent(st, row, k)
  ELSE ValEvent(st, row, k, min_fpm)

\* Two adjacent rows of one segment, first then second.
ReplayPair(seg, ps, first, second, k, min_fpm) ==
  EventIn(seg, EventIn(seg, Tally(ps), first, k, min_fpm), second, k, min_fpm)

\* calculate_elo has no record creation (an id without a record raises),
\* so its two rows are taken over a store that holds their players.
InitCommute ==
  /\ prog = "two_orders" /\ pc = "main"
  /\ segment \in {"process_faceoff", "training", "validation"}
  /\ elo_dir \in {DirFresh, DirSeasoned}
  /\ players = load_all_players(elo_dir)
  /\ event_a \in CommuteRows /\ event_b \in CommuteRows
  /\ segment = "process_faceoff" =>
       Participants(event_a) \cup Participants(event_b) \subseteq DOMAIN players
  /\ k_value = IF segment = "process_faceoff" THEN K_FACTOR ELSE 16
  /\ min_faceoffs_per_minute \in
       IF segment = "validation" THEN FpmOptions ELSE {{}}
  /\ order_ab = <<>> /\ order_ba = <<>>
  /\ dry_run = FALSE /\ files_done = 0 /\ changed = 0 /\ failed = 0
  /\ on_ice = NoLineup /\ prev_home_ids = {} /\ prev_away_ids = {}
  /\ home_elo_players = <<>> /\ away_elo_players = <<>>
  /\ shown = <<>> /\ polls = 0
  /\ rating_a = 0 /\ rating_b = 0 /\ expected_ab = <<>> /\ expected_ba = <<>>
  /\ team1_ids = <<>> /\ team2_ids = <<>>
  /\ players1 = <<>> /\ players2 = <<>>
  /\ weights1 = <<>> /\ weights2 = <<>>
  /\ overall_p1_win = <<>>
  /\ faceoff_data = "raw" /\ all_games = <<>> /\ k_values = <<>>
  /\ args = NoArgs /\ findings = OldFindings /\ best = NoRow
  /\ rows_read = <<>> /\ initial_players = <<>> /\ all_results = <<>>
  /\ k_output = <<>> /\ rows_done = 0 /\ fo = NoRow
  /\ train_faceoffs_target = 0 /\ val_faceoffs_target = 0
  /\ train_faceoffs_assigned = 0 /\ val_faceoffs_assigned = 0
  /\ train_faceoffs_processed = 0 /\ val_faceoffs_processed = 0
  /\ total_log_loss = 0 /\ valid_predictions = 0 /\ skipped_faceoffs = 0
  /\ skipped_low_faceoffs = 0 /\ skipped_low_faceoffs_per_minute = 0
  /\ new_players_in_validation = 0 /\ training_complete = FALSE
  /\ train_games_set = {} /\ val_games_set = {}
  /\ total_faceoffs = 0

\* event_a then event_b.
ReplayAB ==
  /\ prog = "two_orders" /\ pc = "main"
  /\ order_ab' = <<ReplayPair(segment, players, event_a, event_b, k_value,
                              min_faceoffs_per_minute)>>
  /\ pc' = "first"
  /\ UNCHANGED <<replay, matchup, scoring, clearing, monitoring, segment,
                 event_a, event_b, order_ba>>

\* event_b then event_a.
ReplayBA ==
  /\ prog = "two_orders" /\ pc = "first"
  /\ order_ba' = <<ReplayPair(segment, players, event_b, event_a, k_value,
                              min_faceoffs_per_minute)>>
  /\ pc' = "done"
  /\ UNCHANGED <<replay, matchup, scoring, clearing, monitoring, segment,
                 event_a, event_b, order_ab>>

NextCommute == ReplayAB \/ ReplayBA
SpecCommute == InitCommute /\ [][NextCommute]_vars

\* ------------------------------------- calculate_expected_score in doubles
\* 10 ** ((rating_b - rating_a) / 400) raises OverflowError from this
\* gap rating_b - rating_a on (in whole points).
OverflowGap == 123302
\* 1 / (1 + 10 ** x) is exactly 1.0 from this gap rating_a - rating_b on:
\* 10 ** x is then below half an ulp of 1.
SaturationGap == 6382

\* Where the double the call returns lies: "raises" (no value), "one"
\* (exactly 1.0), "half" (exactly 0.5), or strictly "above" or "below" 0.5
\* inside (0, 1).  The quotient is never 0.0: the power overflows first.
ScoreClass(a, b) ==
  IF b - a >= OverflowGap * Scale THEN "raises"
  ELSE IF a - b >= SaturationGap * Scale THEN "one"
  ELSE IF a > b THEN "above"
  ELSE IF a = b THEN "half"
  ELSE "below"

\* What a call returns: the value in percent and where the double lies.
ScoreOf(a, b) ==
  [value |-> calculate_expected_score(a, b), class |-> ScoreClass(a, b)]

\* Ratings in whole points: equal, close, a hundred apart, and either side
\* of the two gaps above.
ScoreRatings ==
  { r * Scale : r \in {0, 1500, 1501, 1600, 2460, 7881, 7882, 9000, 123301,
                       123302, 124802} }

InitScore ==
  /\ prog = "expected_score" /\ pc = "main"
  /\ ClearIdle
  /\ rating_a \in ScoreRatings /\ rating_b \in ScoreRatings
  /\ expected_ab = <<>> /\ expected_ba = <<>>
  /\ elo_dir = <<>>
  /\ team1_ids = <<>> /\ team2_ids = <<>>
  /\ players1 = <<>> /\ players2 = <<>>
  /\ weights1 = <<>> /\ weights2 = <<>>
  /\ overall_p1_win = <<>>
  /\ ReplayIdle

\* calculate_expected_score(rating_a, rating_b)
ScoreAB ==
  /\ prog = "expected_score" /\ pc = "main"
  /\ IF ScoreClass(rating_a, rating_b) = "raises"
     THEN pc' = "raised" /\ UNCHANGED expected_ab
     ELSE expected_ab' = <<ScoreOf(rating_a, rating_b)>> /\ pc' = "first"
  /\ UNCHANGED <<replay, matchup, clearing, commuting, monitoring, rating_a, rating_b, expected_ba>>

\* calculate_expected_score(rating_b, rating_a)
ScoreBA ==
  /\ prog = "expected_score" /\ pc = "first"
  /\ IF ScoreClass(rating_b, rating_a) = "raises"
     THEN pc' = "raised" /\ UNCHANGED expected_ba
     ELSE expected_ba' = <<ScoreOf(rating_b, rating_a)>> /\ pc' = "done"
  /\ UNCHANGED <<replay, matchup, clearing, commuting, monitoring, rating_a, rating_b, expected_ab>>

NextScore == ScoreAB \/ ScoreBA

SpecScore == InitScore /\ [][NextScore]_vars

\* ------------------------------------------------------------ the claims
\* What a step did to the row it passed, read from the step's two states.
RowWinner(row) == Get(row, "winningPlayerId", 0)
RowLoser(row) == Get(row, "losingPlayerId", 0)
RowZone(row) == Get(row, "zoneCode", "N")

\* The step passed a row; the row is fo'.
Passed == rows_done' = rows_done + 1

\* The step passed a row that has both ids and did not raise: the rating
\* update ran on it.
Applied ==
  /\ Passed /\ pc' = "loop"
  /\ Truthy(RowWinner(fo')) /\ Truthy(RowLoser(fo'))

TrainStep == Passed /\ train_faceoffs_assigned' = train_faceoffs_assigned + 1
ValStep == Passed /\ val_faceoffs_assigned' = val_faceoffs_assigned + 1

\* A participant's rating and counters as the step found them; a
\* participant without a record is created at the start values.
EloBefore(id) ==
  IF id \in DOMAIN players THEN players[id].elo ELSE STARTING_ELO * Scale
TakenBefore(id) ==
  IF id \in DOMAIN players THEN players[id].faceoffs_taken ELSE 0
NeutralBefore(id) ==
  IF id \in DOMAIN players THEN players[id].neutral_faceoffs ELSE 0

\* The K of the running program.
RunK == IF prog = "calculate_elo" THEN K_FACTOR ELSE k_value

\* C1: for every row the rating update is applied to (process_faceoff, the
\* training branch and the validation branch), the winner's rating change
\* is the negative of the loser's rating change.
C1_ZeroSum ==
  [][Applied =>
       LET w == RowWinner(fo')
           l == RowLoser(fo')
       IN  players'[w].elo - EloBefore(w) = -(players'[l].elo - EloBefore(l))
    ]_vars

\* C2: when the winner and the loser are two participants with equal
\* ratings, each expected score is one half, the winner gains K/2 and the
\* loser loses K/2; two participants at 1500 with no faceoffs yet, K = 32
\* and a neutral-zone row end at 1516 and 1484 with faceoffs_taken = 1,
\* neutral_faceoffs = 1 and the other two zone counters 0.
C2_EqualRatings ==
  [][(Applied /\ RowWinner(fo') # RowLoser(fo')
        /\ EloBefore(RowWinner(fo')) = EloBefore(RowLoser(fo'))) =>
       LET w == RowWinner(fo')
           l == RowLoser(fo')
           r == EloBefore(w)
       IN  /\ 2 * calculate_expected_score(r, r) = Scale
           /\ 2 * (players'[w].elo - r) = RunK * Scale
           /\ 2 * (players'[l].elo - r) = -(RunK * Scale)
           /\ (/\ r = 1500 * Scale /\ RunK = 32 /\ RowZone(fo') = "N"
               /\ TakenBefore(w) = 0 /\ TakenBefore(l) = 0
               /\ w \in DOMAIN players => players[w] = FreshRecord(w)
               /\ l \in DOMAIN players => players[l] = FreshRecord(l))
              => /\ players'[w].elo = 1516 * Scale
                 /\ players'[l].elo = 1484 * Scale
                 /\ \A p \in {w, l} :
                      /\ players'[p].faceoffs_taken = 1
                      /\ players'[p].neutral_faceoffs = 1
                      /\ players'[p].offensive_faceoffs = 0
                      /\ players'[p].defensive_faceoffs = 0
    ]_vars

\* C2 witness: after one neutral row between two fresh players at K = 32.
C2_Witness ==
  /\ rows_done = 1 /\ RunK = 32 /\ fo = Row(1, 2, "N")
  /\ {1, 2} \subseteq DOMAIN players
  /\ players[1].elo = 1516 * Scale /\ players[2].elo = 1484 * Scale
  /\ players[1].faceoffs_taken = 1 /\ players[2].faceoffs_taken = 1
  /\ players[1].neutral_faceoffs = 1 /\ players[2].neutral_faceoffs = 1

\* C3: the training target is floor(0.8 * N) and the validation target is
\* the rest, so the two sum to N, for the N rows of any distribution over
\* the game files; 200 rows give 160 and 40.
C3_SplitTargets ==
  /\ TrainTarget(200) = 160 /\ 200 - TrainTarget(200) = 40
  /\ (prog = "optimize_k" /\ k_value # 0) =>
       LET n == SumSeq(all_games)
       IN  /\ 5 * train_faceoffs_target <= 4 * n
           /\ 4 * n < 5 * (train_faceoffs_target + 1)
           /\ val_faceoffs_target = n - train_faceoffs_target
           /\ train_faceoffs_target + val_faceoffs_target = n

\* C3 witness: a run over two rows that lie in two files.
C3_Witness ==
  /\ prog = "optimize_k" /\ pc = "loop" /\ all_games = <<1, 1>>
  /\ train_faceoffs_target = 1 /\ val_faceoffs_target = 1

\* C4: a validation row is scored only if the winner and the loser both had
\* more than 50 faceoffs before it; if either had 50 or fewer, the row
\* leaves total_log_loss and valid_predictions alone and adds one to
\* skipped_low_faceoffs.
C4_ExperienceFilter ==
  [][(ValStep /\ Applied) =>
       LET w == RowWinner(fo')
           l == RowLoser(fo')
           both == TakenBefore(w) > 50 /\ TakenBefore(l) > 50
       IN  /\ (\/ total_log_loss' # total_log_loss
               \/ valid_predictions' # valid_predictions) => both
           /\ ~both => /\ skipped_low_faceoffs' = skipped_low_faceoffs + 1
                       /\ total_log_loss' = total_log_loss
                       /\ valid_predictions' = valid_predictions
    ]_vars

\* C4 witness: a validation row between two players who both had exactly
\* 50 faceoffs was skipped.
C4_Witness ==
  /\ prog = "optimize_k" /\ val_faceoffs_processed = 1
  /\ skipped_low_faceoffs = 1 /\ valid_predictions = 0
  /\ RowWinner(fo) # RowLoser(fo)
  /\ players[RowWinner(fo)].faceoffs_taken = 51
  /\ players[RowLoser(fo)].faceoffs_taken = 51

\* C5: the loss a scored validation row adds is the loss of the expected
\* score of the two ratings as the row found them, that is, as all earlier
\* rows (training and validation) left them and before its own update.
C5_OnlinePrediction ==
  [][(ValStep /\ Applied /\ valid_predictions' = valid_predictions + 1) =>
       LET w == RowWinner(fo')
           l == RowLoser(fo')
       IN  total_log_loss' - total_log_loss =
             log_loss_single(
               calculate_expected_score(EloBefore(w), EloBefore(l)), 1)
    ]_vars

\* C5 witness: a second validation row was scored.
C5_Witness ==
  /\ prog = "optimize_k" /\ valid_predictions = 2
  /\ val_faceoffs_processed = 2

\* C6: every validation row that has both ids updates both participants,
\* whatever the filter decided: both faceoffs_taken grow, both ratings move
\* by the K step from the ratings the row found, and
\* val_faceoffs_processed grows by one.
C6_UpdateRegardless ==
  [][(ValStep /\ Applied) =>
       LET w == RowWinner(fo')
           l == RowLoser(fo')
       IN  /\ players'[w].faceoffs_taken > TakenBefore(w)
           /\ players'[l].faceoffs_taken > TakenBefore(l)
           /\ val_faceoffs_processed' = val_faceoffs_processed + 1
           /\ w # l =>
                /\ players'[w].elo - EloBefore(w) =
                     k_value * (Scale - calculate_expected_score(
                                          EloBefore(w), EloBefore(l)))
                /\ players'[l].elo - EloBefore(l) =
                     -(k_value * calculate_expected_score(
                                   EloBefore(l), EloBefore(w)))
    ]_vars

\* C6 witness: of two validation rows one was skipped for low experience
\* and one for low faceoffs per minute, and both were processed.
C6_Witness ==
  /\ prog = "optimize_k" /\ val_faceoffs_processed = 2
  /\ skipped_low_faceoffs = 1 /\ skipped_low_faceoffs_per_minute = 1

\* The rows a run reports as passed but not applied: the counter printed
\* as "Skipped (unknown players)" and the rows assigned to a segment but
\* not processed.
SkipStatistic ==
  skipped_faceoffs
  + (train_faceoffs_assigned - train_faceoffs_processed)
  + (val_faceoffs_assigned - val_faceoffs_processed)

\* C7: a row whose winner id or loser id is missing changes no record,
\* creates none, and is counted in a skip statistic of the run.
C7_MissingIdCounted ==
  [][(Passed /\ ~(Truthy(RowWinner(fo')) /\ Truthy(RowLoser(fo')))) =>
       /\ players' = players
       /\ SkipStatistic' = SkipStatistic + 1
    ]_vars

\* C8: a row whose zone code is absent or is none of O, D, N is applied
\* without raising and adds one to neutral_faceoffs of the winner and of
\* the loser.
C8_UnknownZoneNeutral ==
  [][(Applied /\ RowZone(fo') \notin {"O", "D"}) =>
       LET w == RowWinner(fo')
           l == RowLoser(fo')
       IN  /\ players'[w].neutral_faceoffs > NeutralBefore(w)
           /\ players'[l].neutral_faceoffs > NeutralBefore(l)
    ]_vars

\* C9: for every participant, faceoffs_taken is the sum of the three zone
\* counters (it is in every record a run starts from).
C9_ZonePartition ==
  \A id \in DOMAIN players :
    players[id].faceoffs_taken =
      players[id].offensive_faceoffs + players[id].defensive_faceoffs
      + players[id].neutral_faceoffs

\* The store a run for k leaves when it replays rows from store ps.
RECURSIVE ReplayStore(_, _, _)
ReplayStore(ps, rows, k) ==
  IF rows = <<>> THEN ps
  ELSE LET w == RowWinner(Head(rows))
           l == RowLoser(Head(rows))
           created == get_or_create_player(get_or_create_player(ps, w), l)
       IN  ReplayStore(
             IF Truthy(w) /\ Truthy(l)
             THEN InlineUpdate(created, w, l, RowZone(Head(rows)), k)
             ELSE ps,
             Tail(rows), k)

\* C10: the cached initial players stay as loaded, every run starts from
\* them, and what a run for K leaves (results and final store) is what a
\* run for K from the loaded players alone leaves, whatever ran before.
C10_SameBaseline ==
  LET loaded == _load_initial_players(elo_dir)
  IN  /\ initial_players # <<>> => initial_players[1] = loaded
      /\ (prog = "optimize_k" /\ pc = "loop" /\ rows_done = 0) =>
           players = loaded
      /\ \A i, j \in 1..Len(all_results) :
           all_results[i].k_value = all_results[j].k_value =>
             all_results[i] = all_results[j]
      /\ (/\ prog = "optimize_k" /\ pc \in {"main", "done"}
          /\ Len(all_results) >= 1
          /\ Len(rows_read) = SumSeq(all_games)) =>
           /\ players = ReplayStore(loaded, rows_read, k_value)
           /\ k_output[k_value] = players

\* C10 witness: the second of two runs with different K has finished, and
\* it trained on one row and validated on one.
C10_Witness ==
  /\ prog = "optimize_k" /\ pc = "main" /\ Len(all_results) = 2
  /\ all_results[1].k_value # all_results[2].k_value
  /\ train_faceoffs_processed = 1 /\ val_faceoffs_processed = 1
  /\ players # initial_players[1]

\* a <= b for two mean log-losses (<<total, count>>; count 0 is infinite).
MeanLE(a, b) ==
  \/ b[2] = 0
  \/ a[2] # 0 /\ a[1] * b[2] <= b[1] * a[2]

\* C11: after the sweep the best result is a candidate's result whose mean
\* log-loss is at most every candidate's, and every candidate before it in
\* candidate order has a strictly greater mean (the first of the lowest).
C11_BestIsFirstLowest ==
  (prog = "optimize_k" /\ pc = "done") =>
    \E i \in 1..Len(all_results) :
      /\ best = all_results[i]
      /\ best.k_value = k_values[i]
      /\ \A j \in 1..Len(all_results) :
           MeanLE(best.log_loss, all_results[j].log_loss)
      /\ \A j \in 1..(i - 1) :
           ~MeanLE(all_results[j].log_loss, best.log_loss)

\* C11 witness: two different candidates ended with the same mean and the
\* first was reported as best.
C11_Witness ==
  /\ prog = "optimize_k" /\ pc = "done" /\ Len(all_results) = 2
  /\ all_results[1].k_value # all_results[2].k_value
  /\ MeanLE(all_results[1].log_loss, all_results[2].log_loss)
  /\ MeanLE(all_results[2].log_loss, all_results[1].log_loss)
  /\ best.k_value = all_results[1].k_value

\* A sweep in which the second candidate's mean is strictly the lowest.
C11_SecondWins ==
  /\ prog = "optimize_k" /\ pc = "done" /\ Len(all_results) = 2
  /\ ~MeanLE(all_results[1].log_loss, all_results[2].log_loss)
  /\ all_results[2].log_loss[2] # 0
  /\ best = all_results[2]

\* C12: the mean log-loss a run reports is total_log_loss /
\* valid_predictions when valid_predictions > 0 and infinite when it is 0,
\* and an infinite mean is not reported as better than random; a run over
\* zero rows assigns and processes nothing and returns its results.
C12_MeanOrInfinite ==
  [][(Len(all_results') = Len(all_results) + 1) =>
       LET r == all_results'[Len(all_results')]
       IN  /\ valid_predictions > 0 =>
                r.log_loss = <<total_log_loss, valid_predictions>>
           /\ valid_predictions = 0 =>
                r.log_loss[2] = 0 /\ ~r.better_than_random
           /\ SumSeq(all_games) = 0 =>
                /\ r.train_faceoffs_target = 0 /\ r.val_faceoffs_target = 0
                /\ r.train_faceoffs_assigned = 0
                /\ r.val_faceoffs_assigned = 0
                /\ r.train_faceoffs_processed = 0
                /\ r.val_faceoffs_processed = 0
                /\ r.val_faceoffs_evaluated = 0
                /\ players = _load_initial_players(elo_dir)
                /\ pc' = "main"
    ]_vars

\* C12 witness: a run over a game file without rows has returned.
C12_Witness ==
  /\ prog = "optimize_k" /\ pc = "main" /\ all_games = <<0>>
  /\ Len(all_results) = 1
  /\ all_results[1].log_loss[2] = 0
  /\ ~all_results[1].better_than_random

\* A run that scored a validation row has returned a finite mean.
C12_Finite ==
  /\ prog = "optimize_k" /\ pc = "main" /\ Len(all_results) = 1
  /\ all_results[1].val_faceoffs_evaluated = 1
  /\ all_results[1].log_loss[2] = 1

\* A command line with a configuration error: a candidate K <= 0, a range
\* with k-max < k-min, or no candidate at all.
ConfigError(a) ==
  IF a.list_blank THEN a.k_max < a.k_min \/ a.k_min <= 0
  ELSE a.k_list = <<>> \/ \E i \in 1..Len(a.k_list) : a.k_list[i] <= 0

\* C13: a sweep whose command line has a configuration error ends with an
\* error before any processing: no run is started and the findings file
\* stays as it was.
C13_ConfigRejected ==
  (prog = "optimize_k" /\ pc # "args" /\ ConfigError(args)) =>
    /\ pc = "raised"
    /\ findings = OldFindings
    /\ all_results = <<>> /\ k_output = <<>> /\ initial_players = <<>>

\* The configuration errors __main__ does reject: a range with
\* k-max < k-min or a step <= 0, and a list without candidates.
C13_RejectedRangesAndEmpty ==
  (/\ prog = "optimize_k" /\ pc # "args"
   /\ \/ args.list_blank /\ (args.k_max < args.k_min \/ args.k_step <= 0)
      \/ ~args.list_blank /\ args.k_list = <<>>) =>
    /\ pc = "raised"
    /\ findings = OldFindings
    /\ all_results = <<>> /\ k_output = <<>> /\ initial_players = <<>>

\* The share of participant i in a signal: its part of the total, or 1/n
\* when the total is 0.
SignalShare(xs, i) ==
  IF RPositive(RSum(xs)) THEN RDiv(xs[i], RSum(xs)) ELSE <<1, Len(xs)>>

RateSignal(ps) ==
  [i \in DOMAIN ps |->
     IF Get(ps[i], "time_on_ice_seconds", 0) <= 0 THEN <<0, 1>>
     ELSE Frac(60 * Get(ps[i], "faceoffs_taken", 0),
               Get(ps[i], "time_on_ice_seconds", 0))]

CountSignal(ps) ==
  [i \in DOMAIN ps |-> <<Get(ps[i], "faceoffs_taken", 0), 1>>]

\* Weights w are as the claim describes them for the participants ps.
WeightsAsSpecified(ps, w) ==
  /\ Len(w) = Len(ps)
  /\ \A i \in DOMAIN w : w[i][1] >= 0 /\ w[i][2] > 0
  /\ RSum(w) = <<1, 1>>
  /\ Len(ps) >= 2 =>
       \A i \in DOMAIN w :
         RMul(<<5, 1>>, w[i]) =
           RAdd(RMul(<<4, 1>>, SignalShare(RateSignal(ps), i)),
                SignalShare(CountSignal(ps), i))

C14_AllZero ==
  /\ prog = "matchup_elo" /\ pc = "weighted"
  /\ team1_ids = <<3, 4>> /\ team2_ids = <<4, 4>>
  /\ weights1 = << <<1, 2>>, <<1, 2>> >>
  /\ weights2 = << <<1, 2>>, <<1, 2>> >>

\* C15: for a side of exactly one participant get_player_weights returns
\* the list [1.0].
C15_SingleParticipant ==
  (/\ prog = "matchup_elo" /\ pc \in {"raised", "weighted", "done"}
   /\ Len(players1) = 1) =>
    weights1 = << <<1, 1>> >>

\* For a single participant whose record has a player_name the list [1.0]
\* is returned.
C15_NamedSingleParticipant ==
  (/\ prog = "matchup_elo" /\ pc \in {"raised", "weighted", "done"}
   /\ Len(players1) = 1 /\ "player_name" \in DOMAIN players1[1]) =>
    weights1 = << <<1, 1>> >>

\* The probability that side a beats side b: the sum over the
\* participants i of a of weight_i(a) times the sum over the participants
\* j of b of P(i beats j) * weight_j(b), in 1/Scale.
GroupProbability(pa, pb, wa, wb) ==
  RSum([i \in DOMAIN pa |->
         RMul(wa[i],
              RSum([j \in DOMAIN pb |->
                     RMul(<<calculate_expected_score(pa[i].elo, pb[j].elo), 1>>,
                          wb[j])]))])

\* C16: the group probability of side 1 is the weighted sum over all
\* pairs; it lies in [0, 1]; the probability of side 2 (computed with the
\* sides exchanged) is its complement; no record of the store or of the
\* loaded sides is changed; with one participant per side it is the
\* pairwise expected score, which for 1600 against 1500 is 64 percent.
C16_GroupProbability ==
  /\ calculate_expected_score(1600 * Scale, 1500 * Scale) = 64
  /\ (prog = "matchup_elo") =>
       /\ elo_dir = MatchupDir
       /\ \A i \in DOMAIN players1 : players1[i] = MatchupDir[team1_ids[i]]
       /\ \A j \in DOMAIN players2 : players2[j] = MatchupDir[team2_ids[j]]
  /\ (prog = "matchup_elo" /\ pc = "done") =>
       LET p == overall_p1_win[1]
       IN  /\ p = GroupProbability(players1, players2, weights1, weights2)
           /\ p[1] >= 0 /\ p[1] <= Scale * p[2]
           /\ RAdd(p, GroupProbability(players2, players1, weights2, weights1))
                = <<Scale, 1>>
           /\ (Len(players1) = 1 /\ Len(players2) = 1) =>
                p = <<calculate_expected_score(players1[1].elo,
                                               players2[1].elo), 1>>

\* C16 witness: 1600 against 1500, one participant per side.
C16_Witness ==
  /\ prog = "matchup_elo" /\ pc = "done"
  /\ team1_ids = <<1>> /\ team2_ids = <<2>>
  /\ players1[1].elo = 1600 * Scale /\ players2[1].elo = 1500 * Scale
  /\ overall_p1_win = << <<64, 1>> >>

\* Two against two with unequal weights on both sides.
C16_TwoAgainstTwo ==
  /\ prog = "matchup_elo" /\ pc = "done"
  /\ team1_ids = <<1, 3>> /\ team2_ids = <<2, 6>>
  /\ weights1[1] # weights1[2] /\ weights2[1] # weights2[2]
  /\ overall_p1_win[1][2] # 1

\* C17: for any two ratings both calls return, the two values sum to 1,
\* each lies strictly between 0 and 1, and a value is 0.5 exactly when the
\* ratings are equal.
C17_Symmetry ==
  (prog = "expected_score" /\ pc # "main") =>
    /\ pc # "raised"
    /\ expected_ab[1].class \in {"above", "half", "below"}
    /\ (expected_ab[1].class = "half") <=> (rating_a = rating_b)
    /\ pc = "done" =>
         /\ expected_ab[1].value + expected_ba[1].value = Scale
         /\ expected_ba[1].class \in {"above", "half", "below"}
         /\ (expected_ba[1].class = "half") <=> (rating_a = rating_b)

\* For two ratings less than SaturationGap apart both calls return, the
\* values sum to 1, lie strictly inside (0, 1), and are 0.5 exactly when
\* the ratings are equal.
C17_WithinGap ==
  (/\ prog = "expected_score" /\ pc # "main"
   /\ rating_a - rating_b < SaturationGap * Scale
   /\ rating_b - rating_a < SaturationGap * Scale) =>
    /\ pc # "raised"
    /\ expected_ab[1].class \in {"above", "half", "below"}
    /\ (expected_ab[1].class = "half") <=> (rating_a = rating_b)
    /\ pc = "done" =>
         /\ expected_ab[1].value + expected_ba[1].value = Scale
         /\ expected_ba[1].class \in {"above", "half", "below"}
         /\ (expected_ba[1].class = "half") <=> (rating_a = rating_b)

\* C18: a participant id that has no record when a row with both ids is
\* processed gets a record at rating 1500 with all counters 0 before the
\* row's update, in run_elo_calculation and in run_k_optimization alike;
\* the row never fails for the missing record, and no record leaves the
\* store.
C18_FirstSeenCreated ==
  [][(Passed /\ Truthy(RowWinner(fo')) /\ Truthy(RowLoser(fo'))) =>
       LET w == RowWinner(fo')
           l == RowLoser(fo')
       IN  /\ pc' # "raised"
           /\ {w, l} \subseteq DOMAIN players'
           /\ DOMAIN players \subseteq DOMAIN players'
           /\ \A p \in {w, l} \ DOMAIN players :
                /\ players'[p].faceoffs_taken <= (IF w = l THEN 2 ELSE 1)
                /\ players'[p].faceoffs_taken = 0 =>
                     /\ players'[p].elo = STARTING_ELO * Scale
                     /\ players'[p].offensive_faceoffs = 0
                     /\ players'[p].defensive_faceoffs = 0
                     /\ players'[p].neutral_faceoffs = 0
    ]_vars

\* In run_k_optimization a first-seen id is created at the start values,
\* no row fails for a missing record and the store only grows within a
\* run; the files of elo_dir are never removed by either program.
C18_OptimizeCreates ==
  [][/\ DOMAIN elo_dir \subseteq DOMAIN elo_dir'
     /\ (/\ prog = "optimize_k" /\ Passed
         /\ Truthy(RowWinner(fo')) /\ Truthy(RowLoser(fo'))) =>
          LET w == RowWinner(fo')
              l == RowLoser(fo')
          IN  /\ pc' # "raised"
              /\ {w, l} \subseteq DOMAIN players'
              /\ DOMAIN players \subseteq DOMAIN players'
              /\ \A p \in {w, l} \ DOMAIN players :
                   /\ players'[p].faceoffs_taken <= (IF w = l THEN 2 ELSE 1)
                   /\ players'[p].faceoffs_taken = 0 =>
                        players'[p] = NewPlayer(p)
    ]_vars

\* Every record of the store that has taken no faceoff is at the start
\* rating.
UnplayedAtStart(store) ==
  \A id \in DOMAIN store :
    (Loadable(store[id]) /\ Get(store[id], "faceoffs_taken", 0) = 0) =>
      Get(store[id], "elo", STARTING_ELO * Scale) = STARTING_ELO * Scale

\* C19: in a replay that starts from an empty, a new or a reset directory,
\* at every point every participant whose faceoffs_taken is 0 is at rating
\* 1500, in the working store, in the baseline and in every store kept or
\* written.
C19_UnplayedAtBaseline ==
  (prog \in {"calculate_elo", "optimize_k"} /\ UnplayedAtStart(elo_dir)) =>
    /\ UnplayedAtStart(players)
    /\ \A i \in DOMAIN initial_players : UnplayedAtStart(initial_players[i])
    /\ \A i \in DOMAIN k_output : UnplayedAtStart(k_output[i])

\* C19 witness: over the reset directory one row has been applied; its two
\* participants have moved off 1500 and the third, still at
\* faceoffs_taken = 0, is at 1500.
C19_Witness ==
  /\ rows_done >= 1 /\ DOMAIN players = {1, 2, 3}
  /\ \E p \in DOMAIN players :
       /\ players[p].faceoffs_taken = 0
       /\ players[p].elo = STARTING_ELO * Scale
       /\ players[p].player_name = "Name"
       /\ \A q \in DOMAIN players \ {p} :
            /\ players[q].faceoffs_taken = 1
            /\ players[q].elo # STARTING_ELO * Scale

\* The keys a replay computes; every other key of a record is enrichment.
ComputedKeys ==
  {"elo", "faceoffs_taken", "offensive_faceoffs", "defensive_faceoffs",
   "neutral_faceoffs"}
EnrichmentOf(record) ==
  [k \in DOMAIN record \ ComputedKeys |-> record[k]]

\* The store as the running program loads it from elo_dir.
LoadedStore ==
  IF prog = "optimize_k" THEN _load_initial_players(elo_dir)
  ELSE load_all_players(elo_dir)

\* Every record of the store that was loaded has the keys and the
\* enrichment values it was loaded with.
EnrichmentKept(store) ==
  \A id \in DOMAIN store \cap DOMAIN LoadedStore :
    /\ DOMAIN store[id] = DOMAIN LoadedStore[id]
    /\ EnrichmentOf(store[id]) = EnrichmentOf(LoadedStore[id])

\* C20: the enrichment fields of a record loaded from the initial store
\* (player_name, player_team, time_on_ice_seconds, any other extra key)
\* are never modified by training or validation: at every point of a
\* replay they have the values that were loaded, in the working store, in
\* the baseline and in every store written.
C20_EnrichmentPreserved ==
  (prog \in {"calculate_elo", "optimize_k"} /\ pc # "args"
     /\ CanLoadAll(elo_dir)) =>
    /\ EnrichmentKept(players)
    /\ \A i \in DOMAIN initial_players : EnrichmentKept(initial_players[i])
    /\ \A i \in DOMAIN k_output : EnrichmentKept(k_output[i])

\* C20 witness: in the validation phase over the played directory a
\* rating has changed and the record still has its name, team and time on
\* ice.
C20_Witness ==
  /\ prog = "optimize_k" /\ elo_dir = DirPlayed /\ training_complete
  /\ val_faceoffs_assigned >= 1
  /\ \E id \in DOMAIN players \cap DOMAIN DirPlayed :
       /\ players[id].elo # DirPlayed[id].elo
       /\ players[id].faceoffs_taken > DirPlayed[id].faceoffs_taken
       /\ players[id].player_name = "Name"
       /\ players[id].player_team = "TEAM"
       /\ players[id].time_on_ice_seconds = DirPlayed[id].time_on_ice_seconds

\* The player ids of the files of elo_dir a loader can use.
GoodIds == { elo_dir[f].player_id : f \in { g \in DOMAIN elo_dir : Loadable(elo_dir[g]) } }
\* The files of elo_dir json.loads cannot parse.
UnreadableFiles == { f \in DOMAIN elo_dir : "corrupt" \in DOMAIN elo_dir[f] }

\* _load_initial_players skipped every bad file and kept every good one.
OptimizeLoadSkips ==
  (prog = "optimize_k" /\ initial_players # <<>>) =>
    /\ pc # "raised"
    /\ DOMAIN initial_players[1] = GoodIds

\* clear_elos passed every file: the unreadable ones are counted as failed
\* and left alone, every other one is counted and (unless --dry-run) reset.
ClearSkips ==
  (prog = "clear_elos" /\ pc = "done") =>
    /\ files_done = Cardinality(DOMAIN elo_dir)
    /\ failed = Cardinality(UnreadableFiles)
    /\ changed = Cardinality(DOMAIN elo_dir \ UnreadableFiles)
    /\ ~dry_run =>
         \A f \in DOMAIN elo_dir \ UnreadableFiles :
           elo_dir[f] = _reset_player_payload(elo_dir[f])

\* C21: an unreadable or malformed player file is skipped and every other
\* file is still processed: a bad file never aborts loading the store
\* (load_all_players, _load_initial_players) or resetting it (clear_elos).
C21_BadRecordSkipped ==
  /\ (prog = "calculate_elo" /\ pc # "main") =>
       /\ pc # "raised"
       /\ GoodIds \subseteq DOMAIN players
  /\ OptimizeLoadSkips
  /\ ClearSkips

\* _load_initial_players and clear_elos skip a bad file and go on.
C21_OptimizeAndClearSkip == OptimizeLoadSkips /\ ClearSkips

\* A bad file was skipped by _load_initial_players, and one by clear_elos.
C21_SkippedOne ==
  \/ /\ prog = "optimize_k" /\ elo_dir = DirCorrupt /\ rows_done >= 1
     /\ DOMAIN initial_players[1] = {1, 3}
  \/ /\ prog = "clear_elos" /\ pc = "done" /\ elo_dir # DirNoId
     /\ failed = 1 /\ changed = 2 /\ ~dry_run

\* C22: in the single forward pass of run_k_optimization exactly the first
\* train_faceoffs_target rows are classified as training and every later
\* row as validation: no training row follows a validation row, every row
\* is classified exactly once, and the run ends with train_faceoffs_assigned
\* = train_faceoffs_target and val_faceoffs_assigned = val_faceoffs_target,
\* also when the boundary falls inside a game file.
C22_ForwardSplit ==
  [][prog = "optimize_k" =>
       /\ Passed =>
            /\ TrainStep # ValStep
            /\ TrainStep <=> (rows_done < train_faceoffs_target)
            /\ TrainStep =>
                 /\ val_faceoffs_assigned = 0 /\ ~training_complete
                 /\ UNCHANGED <<val_faceoffs_assigned, val_games_set>>
                 /\ FileOf(rows_done') \in train_games_set'
            /\ ValStep =>
                 /\ train_faceoffs_assigned = train_faceoffs_target
                 /\ UNCHANGED <<train_faceoffs_assigned, train_games_set>>
                 /\ FileOf(rows_done') \in val_games_set'
            /\ train_faceoffs_assigned' + val_faceoffs_assigned' = rows_done'
       /\ Len(all_results') = Len(all_results) + 1 =>
            /\ rows_done = total_faceoffs_all
            /\ train_faceoffs_assigned = train_faceoffs_target
            /\ val_faceoffs_assigned = val_faceoffs_target
            /\ all_results'[Len(all_results')].train_faceoffs_assigned
                 = train_faceoffs_target
            /\ all_results'[Len(all_results')].val_faceoffs_assigned
                 = val_faceoffs_target
    ]_vars

\* C22 witness: a run has ended whose boundary fell inside a game file:
\* the file is among the training files and among the validation files.
C22_Witness ==
  /\ prog = "optimize_k" /\ Len(all_results) >= 1
  /\ train_faceoffs_assigned = train_faceoffs_target
  /\ val_faceoffs_assigned = val_faceoffs_target
  /\ train_faceoffs_assigned >= 2 /\ val_faceoffs_assigned >= 1
  /\ train_games_set \cap val_games_set # {}

\* A run over two files ends with the boundary between them or inside one.
C22_TwoFiles ==
  /\ prog = "optimize_k" /\ Len(all_results) >= 1 /\ Len(all_games) = 2
  /\ train_games_set = {1} /\ val_games_set = {2}

\* Within a run the flag only goes from false to true, at the first row
\* that is classified as validation, and every validation row leaves it
\* true.
FlagFlipsAtFirstValidationRow ==
  (prog = "optimize_k" /\ pc = "loop") =>
    /\ training_complete => training_complete'
    /\ (training_complete' # training_complete) =>
         ValStep /\ val_faceoffs_assigned = 0
    /\ ValStep => training_complete'

\* C23: in every run of run_k_optimization training_complete is flipped
\* from false to true exactly once, at the first row classified as
\* validation, and never reset afterwards: every run ends with the flag
\* true.
C23_FlippedExactlyOnce ==
  [][/\ FlagFlipsAtFirstValidationRow
     /\ (prog = "optimize_k" /\ Len(all_results') = Len(all_results) + 1) =>
          training_complete
    ]_vars

\* C23 amended: within a run the flag is flipped at most once, at the
\* first row classified as validation, and never reset; a run ends with
\* the flag true exactly when the data has at least one row.
C23_FlippedOnceIfAnyRow ==
  [][/\ FlagFlipsAtFirstValidationRow
     /\ (prog = "optimize_k" /\ Len(all_results') = Len(all_results) + 1) =>
          (training_complete <=> total_faceoffs_all >= 1)
    ]_vars

\* C23 witness: a run has ended in which the flag was set at the first
\* validation row and a second validation row passed with it set.
C23_Witness ==
  /\ prog = "optimize_k" /\ Len(all_results) >= 1
  /\ training_complete /\ val_faceoffs_assigned >= 2
  /\ train_faceoffs_assigned >= 1

\* A run over no row at all has ended with the flag still false.
C23_EmptyRun ==
  /\ prog = "optimize_k" /\ Len(all_results) >= 1
  /\ total_faceoffs_all = 0 /\ ~training_complete

\* What the step added to a counter of a participant (a participant
\* without a record starts from 0).
CounterAdded(id, key) ==
  players'[id][key] - (IF id \in DOMAIN players THEN players[id][key] ELSE 0)

\* The step added exactly o, d, n to the three zone counters of id.
ZoneAdded(id, o, d, n) ==
  /\ CounterAdded(id, "offensive_faceoffs") = o
  /\ CounterAdded(id, "defensive_faceoffs") = d
  /\ CounterAdded(id, "neutral_faceoffs") = n

\* The winner's category is the zone code's, the loser's the inverted one.
ZoneByFrame(w, l, zone_code) ==
  /\ zone_code \in {"O", "D", "N"}
  /\ zone_code = "O" => ZoneAdded(w, 1, 0, 0) /\ ZoneAdded(l, 0, 1, 0)
  /\ zone_code = "D" => ZoneAdded(w, 0, 1, 0) /\ ZoneAdded(l, 1, 0, 0)
  /\ zone_code = "N" => ZoneAdded(w, 0, 0, 1) /\ ZoneAdded(l, 0, 0, 1)

\* C24: for each processed event exactly one zone counter of the winner
\* and exactly one of the loser is incremented by 1: O adds to the winner's
\* offensive and the loser's defensive counter, D to the winner's defensive
\* and the loser's offensive counter, N to the neutral counter of both.
C24_ZoneCounters ==
  [][Applied => ZoneByFrame(RowWinner(fo'), RowLoser(fo'), RowZone(fo'))]_vars

\* For a processed event between two different participants with zone
\* code O, D or N (an absent zoneCode reads as N) the counters move as C24
\* says.
C24_KnownZoneTwoPlayers ==
  [][(Applied /\ RowWinner(fo') # RowLoser(fo')
        /\ RowZone(fo') \in {"O", "D", "N"}) =>
       ZoneByFrame(RowWinner(fo'), RowLoser(fo'), RowZone(fo'))]_vars

\* C25: an id met for the first time in a validation event is created at
\* 1500 with zero counters, adds exactly 1 to new_players_in_validation
\* (once per new id: it has a record from then on, and an id with a record
\* adds nothing), has its rating updated by that very event, and
\* contributes to the log-loss accumulator only once its own
\* faceoffs_taken exceeds 50.
C25_NewInValidation ==
  [][(prog = "optimize_k" /\ pc = "loop") =>
       /\ DOMAIN players \subseteq DOMAIN players'
       /\ ~(ValStep /\ Applied) => UNCHANGED new_players_in_validation
       /\ (ValStep /\ Applied) =>
            LET w == RowWinner(fo')
                l == RowLoser(fo')
                new == {w, l} \ DOMAIN players
                start == STARTING_ELO * Scale
            IN  /\ new_players_in_validation' =
                     new_players_in_validation + Cardinality(new)
                /\ {w, l} \subseteq DOMAIN players'
                /\ (\/ total_log_loss' # total_log_loss
                    \/ valid_predictions' # valid_predictions) =>
                     /\ new = {}
                     /\ players[w].faceoffs_taken > 50
                     /\ players[l].faceoffs_taken > 50
                /\ (w # l /\ w \in new) =>
                     /\ players'[w].elo =
                          update_elo(start,
                            calculate_expected_score(start, EloBefore(l)),
                            1, k_value)
                     /\ players'[w].faceoffs_taken = 1
                     /\ CounterAdded(w, "offensive_faceoffs")
                        + CounterAdded(w, "defensive_faceoffs")
                        + CounterAdded(w, "neutral_faceoffs") <= 1
                /\ (w # l /\ l \in new) =>
                     /\ players'[l].elo =
                          update_elo(start,
                            calculate_expected_score(start, EloBefore(w)),
                            0, k_value)
                     /\ players'[l].faceoffs_taken = 1
                     /\ CounterAdded(l, "offensive_faceoffs")
                        + CounterAdded(l, "defensive_faceoffs")
                        + CounterAdded(l, "neutral_faceoffs") <= 1
    ]_vars

\* C25 witness: participant 3 had no record when the first validation row
\* met it; it was counted once, and the second validation row, which met it
\* again, did not count it again; neither row was scored.
C25_Witness ==
  /\ prog = "optimize_k" /\ pc = "loop" /\ elo_dir = DirFresh
  /\ val_faceoffs_processed = 2 /\ new_players_in_validation = 1
  /\ 3 \in DOMAIN players /\ players[3].faceoffs_taken = 2
  /\ players[3].elo # STARTING_ELO * Scale
  /\ players[3].player_name = "Unknown Player"
  /\ valid_predictions = 0 /\ skipped_low_faceoffs = 2

\* C26: the evaluation accumulator never decreases and is changed only by
\* scored validation events: training rows leave total_log_loss and
\* valid_predictions at 0, and each scored validation event adds exactly 1
\* to valid_predictions and a finite, non-negative loss, the clipped
\* -ln p, to total_log_loss (at most -ln 1e-15, the loss of p = 0).
C26_AccumulatorMonotone ==
  [][(prog = "optimize_k" /\ pc = "loop") =>
       /\ total_log_loss' >= total_log_loss
       /\ valid_predictions' >= valid_predictions
       /\ TrainStep =>
            /\ total_log_loss' = 0 /\ valid_predictions' = 0
            /\ UNCHANGED <<total_log_loss, valid_predictions>>
       /\ (\/ total_log_loss' # total_log_loss
           \/ valid_predictions' # valid_predictions) =>
            /\ ValStep /\ Applied
            /\ valid_predictions' = valid_predictions + 1
            /\ LET loss == total_log_loss' - total_log_loss
               IN  /\ loss = log_loss_single(
                              calculate_expected_score(
                                EloBefore(RowWinner(fo')),
                                EloBefore(RowLoser(fo'))), 1)
                   /\ 0 <= loss /\ loss <= NegLnTable[1]
    ]_vars

\* C26 witness: after training rows that left the accumulator at 0, two
\* validation events were scored and each added a positive loss.
C26_Witness ==
  /\ prog = "optimize_k" /\ pc = "loop"
  /\ train_faceoffs_processed >= 2 /\ valid_predictions = 2
  /\ total_log_loss > NegLnTable[51]

\* C28: at every point of the validation segment val_faceoffs_processed =
\* valid_predictions + skipped_low_faceoffs +
\* skipped_low_faceoffs_per_minute, each processed validation event adds
\* one to exactly one of the three, val_faceoffs_processed <=
\* val_faceoffs_assigned, and skipped_faceoffs stays 0 for the whole run.
C28_ValidationCounters ==
  [][prog = "optimize_k" =>
       /\ val_faceoffs_processed' =
            valid_predictions' + skipped_low_faceoffs'
            + skipped_low_faceoffs_per_minute'
       /\ val_faceoffs_processed' <= val_faceoffs_assigned'
       /\ skipped_faceoffs' = 0
       /\ (pc = "loop" /\ val_faceoffs_processed' # val_faceoffs_processed) =>
            /\ ValStep /\ Applied
            /\ val_faceoffs_processed' = val_faceoffs_processed + 1
            /\ valid_predictions' - valid_predictions \in {0, 1}
            /\ skipped_low_faceoffs' - skipped_low_faceoffs \in {0, 1}
            /\ skipped_low_faceoffs_per_minute'
                 - skipped_low_faceoffs_per_minute \in {0, 1}
       /\ (pc = "loop" /\ val_faceoffs_processed' = val_faceoffs_processed) =>
            UNCHANGED <<valid_predictions, skipped_low_faceoffs,
                        skipped_low_faceoffs_per_minute>>
    ]_vars

\* C28 witness: in one validation segment one event was scored and one
\* was skipped for its faceoffs per minute.
C28_Witness ==
  /\ prog = "optimize_k" /\ pc = "loop"
  /\ val_faceoffs_assigned = 2 /\ val_faceoffs_processed = 2
  /\ valid_predictions = 1 /\ skipped_low_faceoffs_per_minute = 1
  /\ skipped_faceoffs = 0

\* One validation event was scored and one skipped for a low count.
C28_ScoredAndLowCount ==
  /\ prog = "optimize_k" /\ pc = "loop"
  /\ valid_predictions = 1 /\ skipped_low_faceoffs = 1

\* A validation row without both ids was assigned and not processed.
C28_AssignedNotProcessed ==
  /\ prog = "optimize_k" /\ pc = "loop"
  /\ val_faceoffs_assigned = 1 /\ val_faceoffs_processed = 0
  /\ skipped_faceoffs = 0

\* The zone codes of an event: the three known ones and any other.
ZoneCodes == {"N", "O", "D", "X"}

\* process_faceoff and the two inline copies of run_k_optimization leave
\* the same store for the event (w, l, zone_code) at K = 32.
SameUpdate(ps, w, l, zone_code) ==
  /\ process_faceoff(w, l, zone_code, ps) =
       InlineUpdate(ps, w, l, zone_code, K_FACTOR)
  /\ process_faceoff(w, l, zone_code, ps) =
       ValidationUpdate(ps, w, l, zone_code, K_FACTOR, "scored")

\* C29: for every store that holds both participants and every event (any
\* winner id, loser id and zone code, the same id as winner and loser
\* included), calculate_elo.process_faceoff with K = 32 and the inline
\* update of run_k_optimization with k_value = 32 leave the same ratings
\* and counters.
C29_UpdatesAgree ==
  (prog \in {"calculate_elo", "optimize_k"} /\ pc = "loop") =>
    \A w \in DOMAIN players : \A l \in DOMAIN players :
      \A zone_code \in ZoneCodes : SameUpdate(players, w, l, zone_code)

\* The two implementations agree on every event between two different
\* participants, whatever the zone code.
C29_AgreeOnTwoPlayers ==
  (prog \in {"calculate_elo", "optimize_k"} /\ pc = "loop") =>
    \A w \in DOMAIN players : \A l \in DOMAIN players \ {w} :
      \A zone_code \in ZoneCodes : SameUpdate(players, w, l, zone_code)

C27_SharedDiffer ==
  /\ prog = "two_orders" /\ pc = "done"
  /\ Participants(event_a) \cap Participants(event_b) # {}
  /\ order_ab[1].players # order_ba[1].players

\* The records of the ids of one side that have a file, in order.
RecordsFound(raw) ==
  LET found == SelectSeq(raw, LAMBDA i : i \in DOMAIN elo_dir)
  IN  [i \in DOMAIN found |-> elo_dir[found[i]]]

\* C30: an on-ice player without an Elo record is left out and does not
\* stop the monitor: on every poll that displays a lineup whose found
\* records are all named, display_matchup has loaded exactly the records
\* that exist, has printed the notice and returned when a side has none,
\* and monitor_loop is polling afterwards.
C30_MissingRecordLeftOut ==
  [][(/\ MonitorDisplay
      /\ ~WeightsRaise(RecordsFound(on_ice'.home))
      /\ ~WeightsRaise(RecordsFound(on_ice'.away))) =>
       /\ pc' = "poll"
       /\ home_elo_players' = RecordsFound(on_ice'.home)
       /\ away_elo_players' = RecordsFound(on_ice'.away)
       /\ (home_elo_players' = <<>> \/ away_elo_players' = <<>>) =>
            shown' = <<"notice">>]_vars

\* The same on lineups whose ids all have a record: only there does the
\* monitor behave as stated.
C30_AllRecordsPresent ==
  [][(/\ MonitorDisplay
      /\ CurIds(on_ice'.home) \cup CurIds(on_ice'.away) \subseteq DOMAIN elo_dir
      /\ ~WeightsRaise(RecordsFound(on_ice'.home))
      /\ ~WeightsRaise(RecordsFound(on_ice'.away))) =>
       /\ pc' = "poll"
       /\ home_elo_players' = RecordsFound(on_ice'.home)
       /\ away_elo_players' = RecordsFound(on_ice'.away)
       /\ (home_elo_players' = <<>> \/ away_elo_players' = <<>>) =>
            shown' = <<"notice">>]_vars

\* A player without a record was on the ice next to one with a record and
\* the monitor has left its loop with the exception of load_player.
C30_StoppedByMissingRecord ==
  /\ prog = "live_matchup_monitor" /\ pc = "raised"
  /\ on_ice.home = <<1, 9>> /\ on_ice.away = <<2>>
  /\ shown = <<>>

\* A side without any id got the notice and the monitor polled again.
C30_NoticeThenPoll ==
  /\ prog = "live_matchup_monitor" /\ pc = "poll"
  /\ shown = <<"notice">> /\ on_ice.home = <<>> /\ polls >= 2

====
